---- MODULE Spec2Model ----
(***************************************************************************)
(* Model of the RFP management backend: the request store (vendors, RFPs,  *)
(* RFP-vendor assignments, proposals), the request lifecycle operations of *)
(* RfpService, the inbox poll of EmailService and the response ingestion   *)
(* pipeline of ProposalService.                                            *)
(*                                                                         *)
(* Every database query is one atomic step.  The inbound-message handler   *)
(* is an async listener registered on the EmailService event emitter; it   *)
(* is modelled with one step per awaited query, so that the handlers of    *)
(* several messages interleave exactly where the code awaits.              *)
(***************************************************************************)
EXTENDS Integers, Sequences, FiniteSets, TLC

\* ----- bounds ------------------------------------------------------------
\* RFPs created
MaxRfps == 2
\* messages that arrive in the mailbox
MaxMsgs == 2
\* 'email' events emitted, each starting one listener run
MaxEmits == 2
\* successful sends, each advancing the clock
MaxClock == 2
\* the vendor rows created in the vendor registry runs
MaxVendors == 3
\* the addVendorToRfp and sendToVendors calls in flight at a time
MaxCalls == 2
\* the poll passes followed after the start of the polling loop
MaxPasses == 4
\* the Responses of the RFP a comparison is computed over
MaxCompared == 3
MaxAssignments == 3
MaxAttachments == 3
\* startImapPolling calls of one process, the one of module init included
MaxStarts == 3

\* ----- program constants -------------------------------------------------
\* results.slice(0, 10)
BatchLimit == 10

\* a nullable column that holds no value
Unknown == -1

\* DEFAULTS.IMAP_POLL_INTERVAL_MS
PollIntervalMs == 60000

\* DEFAULTS.EMAIL_SEND_MAX_RETRIES, the default of maxRetries of sendEmail
EmailSendMaxRetries == 3

\* the default of the maxRetries parameter of generateJSON
DefaultMaxRetries == 5

\* the delays slept after a rate-limit error, in ms
BackoffSchedule == <<1000, 30000, 60000, 90000>>

\* the error messages generateJSON takes for a rate limit
RateLimitErrors == {"429", "Too Many Requests", "Resource exhausted"}

\* enum RfpStatus
RfpStatus == {"draft", "published", "sent", "evaluating", "deal_sold"}

\* enum RfpVendorStatus
RfpVendorStatus == {"pending", "sent", "delivered", "responded", "declined"}

\* enum ProposalStatus
ProposalStatus ==
  {"received", "parsing", "parsed", "parse_failed", "evaluated", "selected", "rejected"}

\* ----- input domains -----------------------------------------------------
\* addresses vendors are registered with, and one address no vendor has
VendorEmails == {"a@v", "b@v"}
UnknownEmail == "u@x"

\* "from" headers of inbound mail, as token sequences: a bare address, or a
\* display name followed by the address in angle brackets
FromHeaders == {<<"Acme", "<", "a@v", ">">>, <<UnknownEmail>>}

\* a null column
Null == 0
\* content tag of caller-supplied (manual) proposal data
Manual == -1

VARIABLES
  vendors,      \* table vendors: set of rows
  rfps,         \* table rfps: set of rows
  rfpVendors,   \* table rfp_vendors: set of rows
  proposals,    \* table proposals (with the proposal_items it owns): set of rows
  nextId,       \* ids handed out so far, per table
  clock,        \* the wall clock (new Date()), advanced by each send
  inbox,        \* the UNSEEN messages of the mailbox, in arrival order
  pending,      \* messages of the current fetch not yet emitted
  batch,        \* the listener runs started by the current fetch
  handlers,     \* the 'email' listener runs, in emit order: local state of
                \* a run in flight, message and returned proposal of a
                \* completed one
  ret,          \* what the last HTTP call observed returned or threw
  calls,        \* addVendorToRfp and sendToVendors calls in flight, followed
                \* await by await: position and local state of each
  ai,           \* the AiService.generateJSON operation under way: position,
                \* attempt, provider calls made, errors caught, delays slept
  poller,       \* the IMAP polling loop: whether the interval timer is set,
                \* the poll passes run so far, a failure that left the loop
  smtp          \* the EmailService.sendEmail call under way: position,
                \* attempt, errors caught, delays waited, what it ended in

vars ==
  <<vendors, rfps, rfpVendors, proposals, nextId, clock, inbox, pending, batch,
    handlers, ret, calls, ai, poller, smtp>>

\* the variables that only the specifications observing call results change
aux == <<ret, calls, ai, poller, smtp>>

db == <<vendors, rfps, rfpVendors, proposals>>

\* ----- the query layer ---------------------------------------------------
\* Model.update on an instance: the values are set on the instance, and the
\* row is written (all given columns) only if some value differs from the
\* instance's own copy; otherwise no query is issued.
Changed(local, vals) == \E k \in DOMAIN vals : local[k] # vals[k]

Merge(row, vals) ==
  [k \in DOMAIN row |-> IF k \in DOMAIN vals THEN vals[k] ELSE row[k]]

InstanceUpdate(table, local, vals) ==
  IF Changed(local, vals)
    THEN {IF row.id = local.id THEN Merge(row, vals) ELSE row : row \in table}
    ELSE table

\* Model.update on the table: every row matching the condition is written
BulkUpdate(table, Match(_), vals) ==
  {IF Match(row) THEN Merge(row, vals) ELSE row : row \in table}

\* the row a findOne returns when several match is not determined
Ids(table) == {row.id : row \in table}
Row(table, id) == CHOOSE row \in table : row.id = id

\* ----- ProposalService.extractEmailAddress -------------------------------
\* fromString.match(/<([^>]+)>/): the text between the first "<" that is
\* followed by at least one non-">" token and the next ">"; otherwise the
\* whole string
AngleMatches(from) ==
  {<<i, j>> \in (1..Len(from)) \X (1..Len(from)) :
      /\ i + 1 < j
      /\ from[i] = "<"
      /\ from[j] = ">"
      /\ \A k \in (i + 1)..(j - 1) : from[k] # ">"}

extractEmailAddress(from) ==
  IF AngleMatches(from) = {}
    THEN from
    ELSE LET first == CHOOSE m \in AngleMatches(from) :
                        \A o \in AngleMatches(from) : m[1] <= o[1]
         IN SubSeq(from, first[1] + 1, first[2] - 1)

\* vendorModel.findOne({ where: { email, isDeleted: false } })
ActiveVendorsByEmail(addr) ==
  {v \in vendors : <<v.email>> = addr /\ ~v.isDeleted}

\* ----- initial state -----------------------------------------------------
\* a row that stands for "no instance loaded"
NoRow == [id |-> 0]

IdleHandler ==
  [pc |-> "idle", msg |-> 0, vendor |-> 0, rv |-> NoRow, rfp |-> NoRow,
   prop |-> NoRow, found |-> FALSE]

Slots == 1..MaxEmits

\* no HTTP call observed yet
NoCall == [op |-> "none"]

\* a call slot with no call in flight
IdleCall ==
  [pc |-> "idle", op |-> "none", rfpId |-> 0, vendorId |-> 0, found |-> NoRow,
   rfp |-> NoRow]

CallSlots == 1..MaxCalls

\* no sendEmail call under way
IdleSmtp ==
  [pc |-> "idle", attempt |-> 0, attempts |-> 0, errors |-> <<>>, waits |-> <<>>,
   outcome |-> "none", error |-> "none"]

\* no generateJSON operation under way
IdleAi ==
  [pc |-> "idle", attempt |-> 0, calls |-> 0, errors |-> <<>>, waits |-> <<>>,
   outcome |-> "none", error |-> "none"]

Init ==
  /\ vendors = {}
  /\ rfps = {}
  /\ rfpVendors = {}
  /\ proposals = {}
  /\ nextId = [vendor |-> 1, rfp |-> 1, rfpVendor |-> 1, proposal |-> 1]
  /\ clock = 0
  /\ inbox = <<>>
  /\ pending = {}
  /\ batch = {}
  /\ handlers = [h \in Slots |-> IdleHandler]
  /\ ret = NoCall
  /\ calls = [c \in CallSlots |-> IdleCall]
  /\ ai = IdleAi
  /\ poller = [timer |-> "off", passes |-> <<>>, escaped |-> FALSE,
               active |-> {}, pollingInterval |-> Null, starts |-> 0,
               stopped |-> FALSE, late |-> FALSE]
  /\ smtp = IdleSmtp

\* ----- VendorService -----------------------------------------------------
\* fault variant: the lookup of a non-deleted vendor by email finds nothing
EmailTaken_Never(email) == FALSE

\* the findOne({ email, isDeleted: false }) of create and update
EmailTaken(email) == \E v \in vendors : v.email = email /\ ~v.isDeleted

\* VendorService.create: conflict when a non-deleted vendor has the email,
\* reactivation of a soft-deleted vendor with the email, else a new row
VendorCreate(email) ==
  /\ ~EmailTaken(email)
  /\ LET deleted == {v \in vendors : v.email = email /\ v.isDeleted}
     IN IF deleted # {}
          THEN /\ \E d \in deleted :
                    vendors' = InstanceUpdate(vendors, d, [isDeleted |-> FALSE])
               /\ UNCHANGED nextId
          ELSE /\ vendors' = vendors \cup
                    {[id |-> nextId.vendor, email |-> email, isDeleted |-> FALSE]}
               /\ nextId' = [nextId EXCEPT !.vendor = @ + 1]
  /\ UNCHANGED <<rfps, rfpVendors, proposals, clock, inbox, pending, batch, handlers>>

\* VendorService.remove: soft delete of a non-deleted vendor
VendorRemove(id) ==
  /\ \E v \in vendors :
       /\ v.id = id
       /\ ~v.isDeleted
       /\ vendors' = InstanceUpdate(vendors, v, [isDeleted |-> TRUE])
  /\ UNCHANGED <<rfps, rfpVendors, proposals, nextId, clock, inbox, pending, batch,
                 handlers>>

\* VendorService.findOne: the non-deleted vendor of the id, if any
VendorFindOne(id) == {v \in vendors : v.id = id /\ ~v.isDeleted}

\* the conflict check of VendorService.update: only for a changed email
UpdateConflict(v, email) == email # v.email /\ EmailTaken(email)

\* the unique index on vendors.email, when the schema has kept it: another
\* row, soft-deleted or not, holds the email
UniqueViolation(id, email) == \E w \in vendors : w.id # id /\ w.email = email

\* VendorService.update with an email in the dto; unique tells whether the
\* table carries the unique index on email
VendorUpdate(id, email, unique) ==
  /\ \E v \in VendorFindOne(id) :
       /\ ~UpdateConflict(v, email)
       /\ ~(unique /\ UniqueViolation(id, email))
       /\ vendors' = InstanceUpdate(vendors, v, [email |-> email])
  /\ UNCHANGED <<rfps, rfpVendors, proposals, nextId, clock, inbox, pending, batch,
                 handlers>>

\* the calls of the vendor registry with their outcomes
VendorCreateCall(email) ==
  \/ /\ VendorCreate(email)
     /\ ret' = [op |-> "vendor.create", email |-> email, status |-> "ok"]
  \/ /\ EmailTaken(email)
     /\ ret' = [op |-> "vendor.create", email |-> email, status |-> "Conflict"]
     /\ UNCHANGED <<vendors, rfps, rfpVendors, proposals, nextId, clock, inbox,
                    pending, batch, handlers>>

VendorUpdateCall(id, email, unique) ==
  \/ /\ VendorUpdate(id, email, unique)
     /\ ret' = [op |-> "vendor.update", id |-> id, email |-> email, status |-> "ok"]
  \/ /\ ret' = [op |-> "vendor.update", id |-> id, email |-> email,
                 status |-> IF VendorFindOne(id) = {} THEN "NotFound"
                            ELSE IF \E v \in VendorFindOne(id) : UpdateConflict(v, email)
                                   THEN "Conflict" ELSE "UniqueViolation"]
     /\ \/ VendorFindOne(id) = {}
        \/ \E v \in VendorFindOne(id) : UpdateConflict(v, email)
        \/ unique /\ UniqueViolation(id, email)
     /\ UNCHANGED <<vendors, rfps, rfpVendors, proposals, nextId, clock, inbox,
                    pending, batch, handlers>>

VendorRemoveCall(id) ==
  \/ /\ VendorRemove(id)
     /\ ret' = [op |-> "vendor.remove", id |-> id, status |-> "ok"]
  \/ /\ VendorFindOne(id) = {}
     /\ ret' = [op |-> "vendor.remove", id |-> id, status |-> "NotFound"]
     /\ UNCHANGED <<vendors, rfps, rfpVendors, proposals, nextId, clock, inbox,
                    pending, batch, handlers>>

\* fault variant: the soft-deleted vendors are resolved as well
findByIds_WithDeleted(ids) == {v \in vendors : v.id \in ids}

\* VendorService.findByIds: the non-deleted vendors among the given ids
findByIds(ids) == {v \in vendors : v.id \in ids /\ ~v.isDeleted}

\* ----- RfpService --------------------------------------------------------
\* RfpService.create: a new RFP in status draft with its line items
RfpCreate(max) ==
  /\ nextId.rfp <= max
  /\ rfps' = rfps \cup {[id |-> nextId.rfp, status |-> "draft", items |-> 0]}
  /\ nextId' = [nextId EXCEPT !.rfp = @ + 1]
  /\ UNCHANGED <<vendors, rfpVendors, proposals, clock, inbox, pending, batch, handlers>>

\* RfpService.create as a call
RfpCreateCall(max) ==
  /\ RfpCreate(max)
  /\ ret' = [op |-> "create", status |-> "ok"]

\* the patches of UpdateRfpDto exercised: a new status, new line items, or
\* both
UpdatePatches ==
  {[status |-> s] : s \in RfpStatus} \cup {[items |-> 1]}
    \cup {[status |-> s, items |-> 1] : s \in RfpStatus}

\* fault variant: the status is not looked at
ItemsLocked_Never(rfp, patch) == FALSE

\* RfpService.update: if (rfp.status !== RfpStatus.DRAFT && updateRfpDto.items)
ItemsLocked(rfp, patch) == rfp.status # "draft" /\ "items" \in DOMAIN patch

\* RfpService.update: rejects an items patch unless the RFP is a draft,
\* writes the patched columns, then replaces the line items
RfpUpdate(id, patch) ==
  /\ \E rfp \in rfps :
       /\ rfp.id = id
       /\ ~ItemsLocked(rfp, patch)
       /\ LET columns == [k \in DOMAIN patch \ {"items"} |-> patch[k]]
              written == InstanceUpdate(rfps, rfp, columns)
          IN rfps' = IF "items" \in DOMAIN patch
                       THEN BulkUpdate(written, LAMBDA row : row.id = id,
                                       [items |-> patch.items])
                       ELSE written
  /\ UNCHANGED <<vendors, rfpVendors, proposals, nextId, clock, inbox, pending, batch,
                 handlers>>

\* RfpService.update as a call: the BadRequestException thrown for an items
\* patch on an RFP that is not a draft precedes every write
RfpUpdateCall(id, patch) ==
  \/ /\ RfpUpdate(id, patch)
     /\ ret' = [op |-> "update", id |-> id, patch |-> patch, status |-> "ok"]
  \/ /\ \E rfp \in rfps : rfp.id = id /\ ItemsLocked(rfp, patch)
     /\ ret' = [op |-> "update", id |-> id, patch |-> patch, status |-> "BadRequest"]
     /\ UNCHANGED <<vendors, rfps, rfpVendors, proposals, nextId, clock, inbox, pending,
                    batch, handlers>>

\* fault variant: the row is created before the AI parse is awaited
RfpCreateFromNaturalLanguage_CreateFirst(max, aiOk) ==
  /\ RfpCreate(max)
  /\ ret' = [op |-> "createFromNaturalLanguage",
             status |-> IF aiOk THEN "ok" ELSE "AiError"]

\* RfpService.createFromNaturalLanguage: the AI parse of the text comes
\* first; when it throws nothing is created, otherwise the RFP is created
\* in status draft, with line items when the AI returned some
RfpCreateFromNaturalLanguage(max, aiOk) ==
  \/ /\ aiOk
     /\ RfpCreate(max)
     /\ ret' = [op |-> "createFromNaturalLanguage", status |-> "ok"]
  \/ /\ ~aiOk
     /\ ret' = [op |-> "createFromNaturalLanguage", status |-> "AiError"]
     /\ UNCHANGED <<vendors, rfps, rfpVendors, proposals, nextId, clock, inbox, pending,
                    batch, handlers>>

\* RfpService.updateStatus: writes the given status, whatever the current one
RfpUpdateStatus(id, status) ==
  /\ \E rfp \in rfps :
       /\ rfp.id = id
       /\ rfps' = InstanceUpdate(rfps, rfp, [status |-> status])
  /\ UNCHANGED <<vendors, rfpVendors, proposals, nextId, clock, inbox, pending, batch,
                 handlers>>

\* the ascending sequence of a finite set of ids
RECURSIVE SortedSeq(_)
SortedSeq(S) ==
  IF S = {} THEN <<>>
  ELSE LET lo == CHOOSE x \in S : \A y \in S : x <= y
       IN <<lo>> \o SortedSeq(S \ {lo})

\* fault variant: the failure of a vendor is not noticed
Delivered_Always(ok, vid) == TRUE

\* the generation and the send for a vendor went through: neither
\* generateRfpEmail nor sendEmail threw
Delivered(ok, vid) == ok[vid]

\* the loop of RfpService.sendToVendors over the resolved vendors: for a
\* vendor whose generation and send succeed (ok), the assignment is found
\* or created and set to sent with the send time and the message id; for a
\* vendor whose generation or send throws, nothing is written
RECURSIVE SendLoop(_, _, _, _)
SendLoop(acc, todo, rfpId, ok) ==
  IF todo = <<>> THEN acc
  ELSE
    LET vid == Head(todo)
        now == acc.clock + 1
        existing == {rv \in acc.rfpVendors : rv.rfpId = rfpId /\ rv.vendorId = vid}
        vals == [status |-> "sent", sentAt |-> now, emailMessageId |-> now]
        stepped ==
          IF ~Delivered(ok, vid)
            THEN [acc EXCEPT !.failed = @ + 1]
          ELSE IF existing = {}
            THEN [acc EXCEPT
                    !.rfpVendors = @ \cup
                       {[id |-> acc.nextRv, rfpId |-> rfpId, vendorId |-> vid,
                         status |-> "sent", sentAt |-> now,
                         respondedAt |-> Null, emailMessageId |-> now]},
                    !.nextRv = @ + 1,
                    !.clock = now,
                    !.sent = @ + 1]
          ELSE [acc EXCEPT
                  !.rfpVendors =
                     InstanceUpdate(@, CHOOSE rv \in existing : TRUE, vals),
                  !.clock = now,
                  !.sent = @ + 1]
    IN SendLoop(stepped, Tail(todo), rfpId, ok)

\* the result of the loop of sendToVendors run from the current state
SendOutcome(id, vendorIds, ok) ==
  LET start == [rfpVendors |-> rfpVendors, nextRv |-> nextId.rfpVendor,
                clock |-> clock, sent |-> 0, failed |-> 0]
      todo == SortedSeq({v.id : v \in findByIds(vendorIds)})
  IN SendLoop(start, todo, id, ok)

\* fault variant: the status guard of sendToVendors lets every RFP through
Unsendable_Never(rfp) == FALSE

\* the status guard of sendToVendors; RfpStatus has no member of value
\* closed, AWARDED is deal_sold
Unsendable(rfp) == rfp.status \in {"closed", "deal_sold"}

\* RfpService.sendToVendors: refuses a closed or awarded RFP and an empty
\* resolved vendor list; after the loop a draft RFP with at least one
\* successful send becomes sent
RfpSendToVendors(id, vendorIds, ok) ==
  /\ \E rfp \in rfps :
       /\ rfp.id = id
       /\ ~Unsendable(rfp)
       /\ findByIds(vendorIds) # {}
       /\ LET end == SendOutcome(id, vendorIds, ok)
          IN /\ end.clock <= MaxClock
             /\ rfpVendors' = end.rfpVendors
             /\ nextId' = [nextId EXCEPT !.rfpVendor = end.nextRv]
             /\ clock' = end.clock
             /\ rfps' = IF end.sent > 0 /\ rfp.status = "draft"
                          THEN InstanceUpdate(rfps, rfp, [status |-> "sent"])
                          ELSE rfps
  /\ UNCHANGED <<vendors, proposals, inbox, pending, batch, handlers>>

\* RfpService.sendToVendors as a call: the counts it returns, or the bad
\* request it throws before the loop
RfpSendToVendorsCall(id, vendorIds, ok) ==
  \/ /\ RfpSendToVendors(id, vendorIds, ok)
     /\ ret' = [op |-> "sendToVendors", id |-> id, vendorIds |-> vendorIds,
                ok |-> ok, status |-> "ok",
                sent |-> SendOutcome(id, vendorIds, ok).sent,
                failed |-> SendOutcome(id, vendorIds, ok).failed]
  \/ /\ \E rfp \in rfps :
          rfp.id = id /\ (Unsendable(rfp) \/ findByIds(vendorIds) = {})
     /\ ret' = [op |-> "sendToVendors", id |-> id, vendorIds |-> vendorIds,
                ok |-> ok, status |-> "BadRequest", sent |-> 0, failed |-> 0]
     /\ UNCHANGED <<vendors, rfps, rfpVendors, proposals, nextId, clock, inbox,
                    pending, batch, handlers>>

\* RfpService.updateStatus as a call
RfpUpdateStatusCall(id, status) ==
  /\ RfpUpdateStatus(id, status)
  /\ ret' = [op |-> "updateStatus", id |-> id, status |-> "ok"]

\* fault variant: addVendorToRfp creates an assignment without the lookup
RfpAddVendor_NoLookup(rfpId, vendorId) ==
  /\ \E rfp \in rfps : rfp.id = rfpId
  /\ VendorFindOne(vendorId) # {}
  /\ rfpVendors' = rfpVendors \cup
       {[id |-> nextId.rfpVendor, rfpId |-> rfpId, vendorId |-> vendorId,
         status |-> "pending", sentAt |-> Null, respondedAt |-> Null,
         emailMessageId |-> Null]}
  /\ nextId' = [nextId EXCEPT !.rfpVendor = @ + 1]
  /\ UNCHANGED <<vendors, rfps, proposals, clock, inbox, pending, batch, handlers>>

\* RfpService.addVendorToRfp: the assignment of the pair is returned when
\* there is one, else created in status pending
RfpAddVendor(rfpId, vendorId) ==
  /\ \E rfp \in rfps : rfp.id = rfpId
  /\ VendorFindOne(vendorId) # {}
  /\ IF \E rv \in rfpVendors : rv.rfpId = rfpId /\ rv.vendorId = vendorId
       THEN UNCHANGED <<rfpVendors, nextId>>
       ELSE /\ rfpVendors' = rfpVendors \cup
                 {[id |-> nextId.rfpVendor, rfpId |-> rfpId, vendorId |-> vendorId,
                   status |-> "pending", sentAt |-> Null, respondedAt |-> Null,
                   emailMessageId |-> Null]}
            /\ nextId' = [nextId EXCEPT !.rfpVendor = @ + 1]
  /\ UNCHANGED <<vendors, rfps, proposals, clock, inbox, pending, batch, handlers>>

RfpAddVendorCall(rfpId, vendorId) ==
  /\ RfpAddVendor(rfpId, vendorId)
  /\ ret' = [op |-> "addVendorToRfp", id |-> rfpId, vendorId |-> vendorId,
             status |-> "ok"]

\* RfpService.removeVendorFromRfp: every assignment of the pair is destroyed;
\* neither the RFP nor the vendor is looked up, and proposals carry no
\* reference to an assignment
RfpRemoveVendor(rfpId, vendorId) ==
  /\ rfpVendors' = {rv \in rfpVendors : ~(rv.rfpId = rfpId /\ rv.vendorId = vendorId)}
  /\ UNCHANGED <<vendors, rfps, proposals, nextId, clock, inbox, pending, batch,
                 handlers>>

RfpRemoveVendorCall(rfpId, vendorId) ==
  /\ RfpRemoveVendor(rfpId, vendorId)
  /\ ret' = [op |-> "removeVendorFromRfp", id |-> rfpId, vendorId |-> vendorId,
             status |-> "ok"]

\* ----- addVendorToRfp and sendToVendors, await by await -------------------
\* a call of addVendorToRfp, or the pass of the loop of sendToVendors for one
\* vendor, up to its lookup of the assignment: the RFP and the vendor are
\* loaded and, for a send, the status guard is passed and the email is sent
CallStart(c, op, rfpId, vendorId) ==
  /\ calls[c].pc = "idle"
  /\ VendorFindOne(vendorId) # {}
  /\ \E rfp \in rfps :
       /\ rfp.id = rfpId
       /\ op = "sendToVendors" => ~Unsendable(rfp)
       /\ calls' = [calls EXCEPT ![c] = [pc |-> "find", op |-> op, rfpId |-> rfpId,
                                         vendorId |-> vendorId, found |-> NoRow,
                                         rfp |-> rfp]]
  /\ UNCHANGED <<vendors, rfps, rfpVendors, proposals, nextId, clock, inbox, pending,
                 batch, handlers, ret, ai, poller, smtp>>

\* rfpVendorModel.findOne({ where: { rfpId, vendorId } })
CallFind(c) ==
  /\ calls[c].pc = "find"
  /\ LET rows == {rv \in rfpVendors : rv.rfpId = calls[c].rfpId
                                      /\ rv.vendorId = calls[c].vendorId}
     IN \E found \in (IF rows = {} THEN {NoRow} ELSE rows) :
          calls' = [calls EXCEPT ![c].pc = "write", ![c].found = found]
  /\ UNCHANGED <<vendors, rfps, rfpVendors, proposals, nextId, clock, inbox, pending,
                 batch, handlers, ret, ai, poller, smtp>>

\* the write that follows the lookup: addVendorToRfp returns the row found
\* or creates one in status pending and ends; sendToVendors updates the row
\* found to sent or creates one in status sent, and goes on to the rest of
\* the loop and the status of the RFP
CallWrite(c) ==
  /\ calls[c].pc = "write"
  /\ LET call == calls[c]
         now == clock + 1
         sentVals == [status |-> "sent", sentAt |-> now, emailMessageId |-> now]
     IN /\ IF call.op = "addVendorToRfp"
             THEN /\ UNCHANGED clock
                  /\ IF call.found # NoRow
                       THEN UNCHANGED <<rfpVendors, nextId>>
                       ELSE /\ rfpVendors' = rfpVendors \cup
                                 {[id |-> nextId.rfpVendor, rfpId |-> call.rfpId,
                                   vendorId |-> call.vendorId, status |-> "pending",
                                   sentAt |-> Null, respondedAt |-> Null,
                                   emailMessageId |-> Null]}
                            /\ nextId' = [nextId EXCEPT !.rfpVendor = @ + 1]
             ELSE /\ now <= MaxClock
                  /\ clock' = now
                  /\ IF call.found # NoRow
                       THEN /\ rfpVendors' =
                                 BulkUpdate(rfpVendors, LAMBDA rv : rv.id = call.found.id,
                                            sentVals)
                            /\ UNCHANGED nextId
                       ELSE /\ rfpVendors' = rfpVendors \cup
                                 {[id |-> nextId.rfpVendor, rfpId |-> call.rfpId,
                                   vendorId |-> call.vendorId, status |-> "sent",
                                   sentAt |-> now, respondedAt |-> Null,
                                   emailMessageId |-> now]}
                            /\ nextId' = [nextId EXCEPT !.rfpVendor = @ + 1]
  /\ calls' = [calls EXCEPT ![c] = IF calls[c].op = "sendToVendors"
                                     THEN [calls[c] EXCEPT !.pc = "status"]
                                     ELSE IdleCall]
  /\ UNCHANGED <<vendors, rfps, proposals, inbox, pending, batch, handlers, ret, ai, poller, smtp>>

\* the end of sendToVendors after a successful send: an RFP that was loaded
\* as draft at the start of the call is set to sent
CallStatus(c) ==
  /\ calls[c].pc = "status"
  /\ rfps' = IF calls[c].rfp.status = "draft"
               THEN InstanceUpdate(rfps, calls[c].rfp, [status |-> "sent"])
               ELSE rfps
  /\ calls' = [calls EXCEPT ![c] = IdleCall]
  /\ UNCHANGED <<vendors, rfpVendors, proposals, nextId, clock, inbox, pending, batch,
                 handlers, ret, ai, poller, smtp>>

\* ----- EmailService.startImapPolling --------------------------------------
\* what a poll pass (one fetchNewEmails call) ends in: the promise resolves,
\* is rejected by the IMAP connection, is rejected by the connection
\* timeout, or the call throws before the promise is made
PassOutcomes == {"ok", "reject", "timeout", "throw"}

\* fault variant: the initial fetch is awaited outside a try block, a
\* failure rejects startImapPolling before setInterval is reached
StartImapPolling_NoCatch(outcome) ==
  /\ poller.timer = "off"
  /\ poller.passes = <<>>
  /\ poller' = [timer |-> IF outcome = "ok" THEN "set" ELSE "off",
                passes |-> <<[outcome |-> outcome, at |-> 0]>>,
                escaped |-> outcome # "ok",
                active |-> IF outcome = "ok" THEN {1} ELSE {},
                pollingInterval |-> IF outcome = "ok" THEN 1 ELSE Null,
                starts |-> 1, stopped |-> FALSE, late |-> FALSE]
  /\ UNCHANGED <<vendors, rfps, rfpVendors, proposals, nextId, clock, inbox, pending,
                 batch, handlers, ret, calls, ai, smtp>>

\* startImapPolling with IMAP configured: the initial fetch inside its try
\* block, whose catch only logs, then setInterval
StartImapPolling(outcome) ==
  /\ poller.timer = "off"
  /\ poller.passes = <<>>
  /\ poller' = [timer |-> "set",
                passes |-> <<[outcome |-> outcome, at |-> 0]>>,
                escaped |-> FALSE,
                active |-> {1}, pollingInterval |-> 1,
                starts |-> 1, stopped |-> FALSE, late |-> FALSE]
  /\ UNCHANGED <<vendors, rfps, rfpVendors, proposals, nextId, clock, inbox, pending,
                 batch, handlers, ret, calls, ai, smtp>>

\* the interval fires intervalMs after the previous firing (the first one
\* after setInterval): the callback runs fetchNewEmails inside a try block
\* whose catch only logs; the timer stays set
PollPass(outcome) ==
  /\ poller.timer = "set"
  /\ Len(poller.passes) < MaxPasses
  /\ poller' = [poller EXCEPT
                  !.passes = Append(@, [outcome |-> outcome,
                                        at |-> @[Len(@)].at + PollIntervalMs]),
                  !.late = @ \/ poller.stopped]
  /\ UNCHANGED <<vendors, rfps, rfpVendors, proposals, nextId, clock, inbox, pending,
                 batch, handlers, ret, calls, ai, smtp>>

\* POST /email/polling/start after module init: startImapPolling once more.
\* The initial fetch runs inside its try block, then setInterval makes a new
\* timer whose handle overwrites pollingInterval; a timer already set is
\* neither looked at nor cleared
startPolling(outcome) ==
  /\ poller.starts >= 1
  /\ poller.starts < MaxStarts
  /\ Len(poller.passes) < MaxPasses
  /\ poller' = [poller EXCEPT
                  !.passes = Append(@, [outcome |-> outcome,
                                        at |-> @[Len(@)].at]),
                  !.timer = "set",
                  !.active = @ \cup {poller.starts + 1},
                  !.pollingInterval = poller.starts + 1,
                  !.starts = @ + 1,
                  !.stopped = FALSE]
  /\ UNCHANGED <<vendors, rfps, rfpVendors, proposals, nextId, clock, inbox, pending,
                 batch, handlers, ret, calls, ai, smtp>>

\* stopImapPolling (POST /email/polling/stop): clearInterval of the handle
\* in pollingInterval, if there is one, and the handle is set to null
StopImapPolling ==
  /\ poller.starts >= 1
  /\ poller' = [poller EXCEPT
                  !.active = @ \ {poller.pollingInterval},
                  !.timer = IF poller.active \ {poller.pollingInterval} = {}
                            THEN "off" ELSE "set",
                  !.pollingInterval = Null,
                  !.stopped = TRUE]
  /\ UNCHANGED <<vendors, rfps, rfpVendors, proposals, nextId, clock, inbox, pending,
                 batch, handlers, ret, calls, ai, smtp>>

\* ----- EmailService.sendEmail ----------------------------------------------
\* what one transporter.sendMail call can end in: the message is accepted,
\* or an error is thrown, named by the part of its message or the code the
\* catch block looks at; "Invalid login" is an authentication error,
\* "rejected" any other permanent one
SmtpErrors ==
  {"ECONNRESET", "ETIMEDOUT", "ECONNREFUSED", "socket hang up", "ESOCKET",
   "Invalid login", "rejected"}

SmtpAnswers == {"sent"} \cup SmtpErrors

\* fault variant: every error is retried
isRetryable_Always(answer) == TRUE

\* the isRetryable test of the catch block
isRetryable(answer) ==
  answer \in {"ECONNRESET", "ETIMEDOUT", "ECONNREFUSED", "socket hang up", "ESOCKET"}

\* the error sendEmail throws after the loop, from the message of lastError
UserFacingError(lastError) ==
  CASE lastError = "Invalid login" -> "Email authentication failed"
    [] lastError = "ECONNREFUSED" -> "Unable to connect to email server"
    [] lastError = "ETIMEDOUT" -> "Email server connection timed out"
    [] OTHER -> "Failed to send email"

\* sendEmail is entered with the transporter and the sender configured
SmtpStart ==
  /\ smtp.pc \in {"idle", "done"}
  /\ smtp' = [IdleSmtp EXCEPT !.pc = "call"]
  /\ UNCHANGED <<vendors, rfps, rfpVendors, proposals, nextId, clock, inbox, pending,
                 batch, handlers, ret, calls, ai, poller>>

\* one pass of the loop up to the wait: sendMail resolves and the message
\* id is returned; or it throws, a retryable error before the last attempt
\* leads to the wait, any other error and the error of the last attempt lead
\* out of the loop to the throw
SmtpAttempt(answer) ==
  /\ smtp.pc = "call"
  /\ smtp' = IF answer = "sent"
               THEN [smtp EXCEPT !.pc = "done", !.attempts = @ + 1,
                                 !.outcome = "messageId"]
             ELSE IF isRetryable(answer) /\ smtp.attempt < EmailSendMaxRetries - 1
               THEN [smtp EXCEPT !.pc = "wait", !.attempts = @ + 1,
                                 !.errors = Append(@, answer)]
             ELSE [smtp EXCEPT !.pc = "done", !.attempts = @ + 1,
                               !.errors = Append(@, answer),
                               !.outcome = "thrown",
                               !.error = UserFacingError(answer)]
  /\ UNCHANGED <<vendors, rfps, rfpVendors, proposals, nextId, clock, inbox, pending,
                 batch, handlers, ret, calls, ai, poller>>

\* the wait of (attempt + 1) * 2000 ms, then the next pass
SmtpWait ==
  /\ smtp.pc = "wait"
  /\ smtp' = [smtp EXCEPT !.pc = "call",
                          !.waits = Append(@, (smtp.attempt + 1) * 2000),
                          !.attempt = @ + 1]
  /\ UNCHANGED <<vendors, rfps, rfpVendors, proposals, nextId, clock, inbox, pending,
                 batch, handlers, ret, calls, ai, poller>>

\* ----- AiService.generateJSON ---------------------------------------------
\* what one generateContent call can end in: a text that holds parseable
\* JSON, a text that does not (JSON.parse fails at position 0, or at position
\* 429 of a longer text), a rate-limit error, another error
ProviderAnswers == {"json", "text", "text@429", "error"} \cup RateLimitErrors

\* error.message of the error an answer makes the try block throw, word by
\* word
ErrorMessage(answer) ==
  CASE answer = "429" -> <<"[429", "Too", "Many", "Requests]", "429">>
    [] answer = "Too Many Requests" -> <<"Too", "Many", "Requests">>
    [] answer = "Resource exhausted" -> <<"Resource", "exhausted">>
    [] answer = "text" ->
         <<"Unexpected", "token", "in", "JSON", "at", "position", "0">>
    [] answer = "text@429" ->
         <<"Unexpected", "token", "in", "JSON", "at", "position", "429">>
    [] OTHER -> <<"API", "key", "not", "valid">>

\* String.prototype.includes on the words of a message
Includes(msg, pat) ==
  \E i \in 0..(Len(msg) - Len(pat)) : SubSeq(msg, i + 1, i + Len(pat)) = pat

\* the test of the catch block for a rate-limit error
IsRateLimit(answer) ==
  \/ Includes(ErrorMessage(answer), <<"429">>)
  \/ Includes(ErrorMessage(answer), <<"Too", "Many", "Requests">>)
  \/ Includes(ErrorMessage(answer), <<"Resource", "exhausted">>)

\* fault variant: an exponential delay instead of the schedule
BackoffMs_Doubling(attempt) == 1000 * (2 ^ attempt)

\* backoffSchedule[Math.min(attempt, backoffSchedule.length - 1)]
BackoffMs(attempt) ==
  BackoffSchedule[(IF attempt < Len(BackoffSchedule) - 1
                     THEN attempt ELSE Len(BackoffSchedule) - 1) + 1]

\* generateJSON is entered with the provider configured; the loop starts at
\* attempt 0
AiStart ==
  /\ ai.pc \in {"idle", "done"}
  /\ ai' = [IdleAi EXCEPT !.pc = "call"]
  /\ UNCHANGED <<vendors, rfps, rfpVendors, proposals, nextId, clock, inbox, pending,
                 batch, handlers, ret, calls, poller, smtp>>

\* one pass of the try block: the provider call and the JSON.parse of its
\* text; parseable JSON is returned, an error whose message passes the
\* rate-limit test leads to the sleep, any other error is thrown
AiAttempt(answer) ==
  /\ ai.pc = "call"
  /\ ai' = IF answer = "json"
             THEN [ai EXCEPT !.pc = "done", !.calls = @ + 1, !.outcome = "returned"]
           ELSE IF IsRateLimit(answer)
             THEN [ai EXCEPT !.pc = "sleep", !.calls = @ + 1,
                             !.errors = Append(@, answer)]
           ELSE [ai EXCEPT !.pc = "done", !.calls = @ + 1,
                           !.errors = Append(@, answer),
                           !.outcome = "thrown", !.error = answer]
  /\ UNCHANGED <<vendors, rfps, rfpVendors, proposals, nextId, clock, inbox, pending,
                 batch, handlers, ret, calls, poller, smtp>>

\* the sleep of the catch block, then the next pass of the loop, or, when
\* attempt has reached maxRetries, the throw of lastError after the loop
AiSleep ==
  /\ ai.pc = "sleep"
  /\ LET slept == [ai EXCEPT !.waits = Append(@, BackoffMs(ai.attempt)),
                             !.attempt = @ + 1]
     IN ai' = IF slept.attempt < DefaultMaxRetries
                THEN [slept EXCEPT !.pc = "call"]
                ELSE [slept EXCEPT !.pc = "done", !.outcome = "thrown",
                                   !.error = ai.errors[Len(ai.errors)]]
  /\ UNCHANGED <<vendors, rfps, rfpVendors, proposals, nextId, clock, inbox, pending,
                 batch, handlers, ret, calls, poller, smtp>>

\* ----- EmailService: the inbox poll --------------------------------------
\* a message arrives in the mailbox; it stays UNSEEN, since the fetch is
\* made with markSeen: false and nothing sets the flag afterwards
Arrive(from) ==
  /\ Len(inbox) < MaxMsgs
  /\ inbox' = Append(inbox, from)
  /\ UNCHANGED <<vendors, rfps, rfpVendors, proposals, nextId, clock, pending, batch,
                 handlers>>

\* EmailService.fetchNewEmails / processSearchResults: the search returns
\* every UNSEEN message and the first BatchLimit of them are fetched
FreeSlots == {h \in Slots : handlers[h].pc = "idle"}

limitedResults == 1..(IF Len(inbox) < BatchLimit THEN Len(inbox) ELSE BatchLimit)

Poll ==
  /\ pending = {}
  /\ limitedResults # {}
  /\ FreeSlots # {}
  /\ pending' = limitedResults
  /\ batch' = {}
  /\ UNCHANGED <<vendors, rfps, rfpVendors, proposals, nextId, clock, inbox,
                 handlers>>

\* this.emit('email', email) in the simpleParser callback of one message:
\* the async listener is called and runs up to its first await; emit does
\* not wait for the promise the listener returns
Emit(m) ==
  /\ m \in pending
  /\ FreeSlots # {}
  /\ LET h == CHOOSE f \in FreeSlots : \A g \in FreeSlots : f <= g
     IN /\ handlers' = [handlers EXCEPT ![h] = [IdleHandler EXCEPT !.pc = "init", !.msg = m]]
        /\ batch' = batch \cup {h}
  /\ pending' = pending \ {m}
  /\ UNCHANGED <<vendors, rfps, rfpVendors, proposals, nextId, clock, inbox>>

InFlight == {h \in Slots : handlers[h].pc \notin {"idle", "done"}}

\* ----- ProposalService: the 'email' listener -----------------------------
\* the listener run h ends; processIncomingEmail has returned the proposal,
\* or null when the message was skipped
Finish(h, proposalId) ==
  handlers' = [handlers EXCEPT ![h] =
                 [IdleHandler EXCEPT !.pc = "done", !.msg = handlers[h].msg,
                                     !.prop = [id |-> proposalId]]]

Goto(h, pc, local) ==
  handlers' = [handlers EXCEPT ![h] = [local EXCEPT !.pc = pc]]

sender(h) == extractEmailAddress(inbox[handlers[h].msg])

\* onModuleInit listener: the quick check that the sender is a non-deleted
\* vendor; an unknown sender ends the run
HInit(h) ==
  /\ handlers[h].pc = "init"
  /\ IF ActiveVendorsByEmail(sender(h)) = {}
       THEN Finish(h, Null)
       ELSE Goto(h, "vendor", handlers[h])
  /\ UNCHANGED <<vendors, rfps, rfpVendors, proposals, nextId, clock, inbox,
                 pending, batch>>

\* processIncomingEmail: the vendor lookup by sender address
HVendor(h) ==
  /\ handlers[h].pc = "vendor"
  /\ IF ActiveVendorsByEmail(sender(h)) = {}
       THEN Finish(h, Null)
       ELSE \E v \in ActiveVendorsByEmail(sender(h)) :
              Goto(h, "assign", [handlers[h] EXCEPT !.vendor = v.id])
  /\ UNCHANGED <<vendors, rfps, rfpVendors, proposals, nextId, clock, inbox,
                 pending, batch>>

\* fault variant: the status filter of the query is dropped
SentAssignments_AnyStatus(vendorId) ==
  {rv \in rfpVendors : rv.vendorId = vendorId}

\* rfpVendorModel.findAll({ where: { vendorId, status: SENT }, ... })
SentAssignments(vendorId) ==
  {rv \in rfpVendors : rv.vendorId = vendorId /\ rv.status = "sent"}

\* fault variant: the order is ascending
MostRecent_Oldest(rvs) == {rv \in rvs : \A o \in rvs : rv.sentAt <= o.sentAt}

\* rfpVendors[0] under order: [['sentAt', 'DESC']]
MostRecent(rvs) == {rv \in rvs : \A o \in rvs : o.sentAt <= rv.sentAt}

\* processIncomingEmail: the vendor's sent assignments, latest first, each
\* with its RFP; none ends the run, else the first one is taken
HAssign(h) ==
  /\ handlers[h].pc = "assign"
  /\ IF SentAssignments(handlers[h].vendor) = {}
       THEN Finish(h, Null)
       ELSE \E rv \in MostRecent(SentAssignments(handlers[h].vendor)) :
              Goto(h, "find", [handlers[h] EXCEPT !.rv = rv, !.rfp = Row(rfps, rv.rfpId)])
  /\ UNCHANGED <<vendors, rfps, rfpVendors, proposals, nextId, clock, inbox,
                 pending, batch>>

\* proposalModel.findOne({ where: { rfpId, vendorId } })
ProposalsOf(rfpId, vendorId) ==
  {p \in proposals : p.rfpId = rfpId /\ p.vendorId = vendorId}

\* processIncomingEmail: the lookup of an existing proposal of the pair
HFind(h) ==
  /\ handlers[h].pc = "find"
  /\ LET found == ProposalsOf(handlers[h].rfp.id, handlers[h].vendor)
     IN IF found = {}
          THEN Goto(h, "upsert", [handlers[h] EXCEPT !.found = FALSE])
          ELSE \E p \in found :
                 Goto(h, "upsert", [handlers[h] EXCEPT !.found = TRUE, !.prop = p])
  /\ UNCHANGED <<vendors, rfps, rfpVendors, proposals, nextId, clock, inbox,
                 pending, batch>>

\* the raw columns written from an inbound message
RawOf(m) ==
  [status |-> "parsing", rawEmailBody |-> m, emailSubject |-> m,
   emailReceivedAt |-> m, emailMessageId |-> m, attachments |-> m]

\* a new proposal row: every column not given is null
NewProposal(id, rfpId, vendorId, vals) ==
  Merge([id |-> id, rfpId |-> rfpId, vendorId |-> vendorId, status |-> "received",
         rawEmailBody |-> Null, emailSubject |-> Null, emailReceivedAt |-> Null,
         emailMessageId |-> Null, attachments |-> Null, totalPrice |-> Null,
         aiExtractedData |-> Null, aiScore |-> Null, items |-> Null], vals)

\* processIncomingEmail: the proposal is created when none was found, else
\* the found instance is overwritten with the message and reset to parsing
HUpsert(h) ==
  /\ handlers[h].pc = "upsert"
  /\ LET me == handlers[h]
     IN IF ~me.found
          THEN /\ LET new == NewProposal(nextId.proposal, me.rfp.id, me.vendor, RawOf(me.msg))
                  IN /\ proposals' = proposals \cup {new}
                     /\ Goto(h, "respond", [me EXCEPT !.prop = new])
               /\ nextId' = [nextId EXCEPT !.proposal = @ + 1]
          ELSE /\ proposals' = InstanceUpdate(proposals, me.prop, RawOf(me.msg))
               /\ Goto(h, "respond", [me EXCEPT !.prop = Merge(me.prop, RawOf(me.msg))])
               /\ UNCHANGED nextId
  /\ UNCHANGED <<vendors, rfps, rfpVendors, clock, inbox, pending, batch>>

\* fault variant: the assignment is left as it is until after the AI calls
HRespond_Skip(h) ==
  /\ handlers[h].pc = "respond"
  /\ Goto(h, IF handlers[h].rfp.status = "sent" THEN "advance" ELSE "parse", handlers[h])
  /\ UNCHANGED <<vendors, rfps, rfpVendors, proposals, nextId, clock, inbox, pending,
                 batch>>

\* processIncomingEmail: the assignment is marked responded
HRespond(h) ==
  /\ handlers[h].pc = "respond"
  /\ LET me == handlers[h]
         vals == [status |-> "responded", respondedAt |-> clock]
     IN /\ rfpVendors' = InstanceUpdate(rfpVendors, me.rv, vals)
        /\ Goto(h, IF me.rfp.status = "sent" THEN "advance" ELSE "parse",
                [me EXCEPT !.rv = Merge(me.rv, vals)])
  /\ UNCHANGED <<vendors, rfps, proposals, nextId, clock, inbox, pending, batch>>

\* fault variant: the RFP is not advanced
HAdvance_NoWrite(h) ==
  /\ handlers[h].pc = "advance"
  /\ Goto(h, "parse", handlers[h])
  /\ UNCHANGED <<vendors, rfps, rfpVendors, proposals, nextId, clock, inbox, pending,
                 batch>>

\* processIncomingEmail: an RFP loaded as sent is advanced to evaluating;
\* the AI parse call is made next
HAdvance(h) ==
  /\ handlers[h].pc = "advance"
  /\ LET me == handlers[h]
         vals == [status |-> "evaluating"]
     IN /\ rfps' = InstanceUpdate(rfps, me.rfp, vals)
        /\ Goto(h, "parse", [me EXCEPT !.rfp = Merge(me.rfp, vals)])
  /\ UNCHANGED <<vendors, rfpVendors, proposals, nextId, clock, inbox, pending, batch>>

\* outcomes of aiService.parseVendorResponse: it throws, or it returns data
\* with a total price and items ("full"), or without either ("bare")
ParseOutcomes == {"fail", "full", "bare"}

\* the columns applyParsedData writes first; an undefined value is not written
ParsedVals(outcome, src) ==
  IF outcome = "full"
    THEN [totalPrice |-> src, aiExtractedData |-> src, status |-> "parsed"]
    ELSE [aiExtractedData |-> src, status |-> "parsed"]

\* fault variant: the catch of the parse only logs
HParse_CatchLogsOnly(h, outcome) ==
  /\ handlers[h].pc = "parse"
  /\ LET me == handlers[h]
     IN IF outcome = "fail"
          THEN /\ UNCHANGED proposals
               /\ Finish(h, me.prop.id)
          ELSE LET vals == ParsedVals(outcome, me.msg)
               IN /\ proposals' = InstanceUpdate(proposals, me.prop, vals)
                  /\ Goto(h, IF outcome = "full" THEN "destroy" ELSE "eval",
                          [me EXCEPT !.prop = Merge(me.prop, vals)])
  /\ UNCHANGED <<vendors, rfps, rfpVendors, nextId, clock, inbox, pending, batch>>

\* processIncomingEmail: the AI parse call returns or throws.  On a throw
\* the proposal becomes parse_failed and the run ends; otherwise
\* applyParsedData writes the parsed columns and the status parsed
HParse(h, outcome) ==
  /\ handlers[h].pc = "parse"
  /\ LET me == handlers[h]
     IN IF outcome = "fail"
          THEN /\ proposals' = InstanceUpdate(proposals, me.prop, [status |-> "parse_failed"])
               /\ Finish(h, me.prop.id)
          ELSE LET vals == ParsedVals(outcome, me.msg)
               IN /\ proposals' = InstanceUpdate(proposals, me.prop, vals)
                  /\ Goto(h, IF outcome = "full" THEN "destroy" ELSE "eval",
                          [me EXCEPT !.prop = Merge(me.prop, vals)])
  /\ UNCHANGED <<vendors, rfps, rfpVendors, nextId, clock, inbox, pending, batch>>

\* applyParsedData: proposalItemModel.destroy({ where: { proposalId } })
HDestroy(h) ==
  /\ handlers[h].pc = "destroy"
  /\ proposals' = BulkUpdate(proposals, LAMBDA row : row.id = handlers[h].prop.id,
                             [items |-> Null])
  /\ Goto(h, "bulk", handlers[h])
  /\ UNCHANGED <<vendors, rfps, rfpVendors, nextId, clock, inbox, pending, batch>>

\* applyParsedData: proposalItemModel.bulkCreate of the parsed items
HBulk(h) ==
  /\ handlers[h].pc = "bulk"
  /\ proposals' = BulkUpdate(proposals, LAMBDA row : row.id = handlers[h].prop.id,
                             [items |-> handlers[h].msg])
  /\ Goto(h, "eval", handlers[h])
  /\ UNCHANGED <<vendors, rfps, rfpVendors, nextId, clock, inbox, pending, batch>>

\* fault variant: a throw of the evaluation reaches the catch of the parse
HEval_NoCatch(h, ok) ==
  /\ handlers[h].pc = "eval"
  /\ LET me == handlers[h]
     IN proposals' = InstanceUpdate(proposals, me.prop,
                                    IF ok THEN [aiScore |-> me.msg, status |-> "evaluated"]
                                    ELSE [status |-> "parse_failed"])
  /\ Finish(h, handlers[h].prop.id)
  /\ UNCHANGED <<vendors, rfps, rfpVendors, nextId, clock, inbox, pending, batch>>

\* applyParsedData: the AI evaluation returns (the score is stored and the
\* status becomes evaluated) or throws (caught, nothing written)
HEval(h, ok) ==
  /\ handlers[h].pc = "eval"
  /\ LET me == handlers[h]
     IN proposals' = IF ok
                       THEN InstanceUpdate(proposals, me.prop,
                                           [aiScore |-> me.msg, status |-> "evaluated"])
                       ELSE proposals
  /\ Finish(h, handlers[h].prop.id)
  /\ UNCHANGED <<vendors, rfps, rfpVendors, nextId, clock, inbox, pending, batch>>

\* the listener's AI parse call with its outcome observed
HParseCall(h, outcome) ==
  /\ HParse(h, outcome)
  /\ ret' = [op |-> "processIncomingEmail", proposal |-> handlers[h].prop.id,
             src |-> handlers[h].msg, parse |-> outcome, eval |-> "none",
             status |-> "ok"]

\* the listener's AI evaluation call with its outcome observed
HEvalCall(h, ok) ==
  /\ HEval(h, ok)
  /\ ret' = [ret EXCEPT !.eval = IF ok THEN "ok" ELSE "fail"]

HandlerStep(h) ==
  \/ HInit(h)
  \/ HVendor(h)
  \/ HAssign(h)
  \/ HFind(h)
  \/ HUpsert(h)
  \/ HRespond(h)
  \/ HAdvance(h)
  \/ \E outcome \in ParseOutcomes : HParse(h, outcome)
  \/ HDestroy(h)
  \/ HBulk(h)
  \/ \E ok \in BOOLEAN : HEval(h, ok)

\* ----- ProposalService: operations of the HTTP surface -------------------
\* the data of createManualProposal exercised: every field given, or none
ManualInputs ==
  {[totalPrice |-> Manual, rawContent |-> Manual, items |-> Manual],
   [totalPrice |-> Null, rawContent |-> Null, items |-> Null]}

\* the columns createManualProposal writes on an existing proposal; an
\* undefined field is not written
ManualVals(data) ==
  IF data.totalPrice = Null
    THEN [status |-> "parsed"]
    ELSE [totalPrice |-> data.totalPrice, rawEmailBody |-> data.rawContent,
          status |-> "parsed"]

\* fault variant: the proposal of the pair is not looked up, a row is
\* created by every call
CreateManualProposal_AlwaysCreate(rfpId, vendorId, data, evalOk) ==
  /\ rfpId \in Ids(rfps)
  /\ vendorId \in Ids(vendors)
  /\ LET new == NewProposal(nextId.proposal, rfpId, vendorId, ManualVals(data))
         created == proposals \cup {new}
         withItems ==
           IF data.items # Null
             THEN BulkUpdate(created, LAMBDA row : row.id = new.id, [items |-> data.items])
             ELSE created
     IN proposals' =
          IF evalOk
            THEN InstanceUpdate(withItems, new, [aiScore |-> Manual, status |-> "evaluated"])
            ELSE withItems
  /\ nextId' = [nextId EXCEPT !.proposal = @ + 1]
  /\ UNCHANGED <<vendors, rfps, rfpVendors, clock, inbox, pending, batch, handlers>>

\* ProposalService.createManualProposal: find-or-create of the proposal of
\* the pair with the given fields and status parsed, replacement of the
\* items when items are given, then a best-effort AI evaluation
CreateManualProposal(rfpId, vendorId, data, evalOk) ==
  /\ rfpId \in Ids(rfps)
  /\ vendorId \in Ids(vendors)
  /\ LET found == ProposalsOf(rfpId, vendorId)
         vals == ManualVals(data)
         scored == [aiScore |-> Manual, status |-> "evaluated"]
         WithItems(table, id) ==
           IF data.items # Null
             THEN BulkUpdate(table, LAMBDA row : row.id = id, [items |-> data.items])
             ELSE table
         Evaluated(table, local) ==
           IF evalOk THEN InstanceUpdate(table, local, scored) ELSE table
     IN IF found = {}
          THEN /\ LET new == NewProposal(nextId.proposal, rfpId, vendorId, vals)
                  IN proposals' = Evaluated(WithItems(proposals \cup {new}, new.id), new)
               /\ nextId' = [nextId EXCEPT !.proposal = @ + 1]
          ELSE /\ \E p \in found :
                    proposals' =
                      Evaluated(WithItems(InstanceUpdate(proposals, p, vals), p.id),
                                Merge(p, vals))
               /\ UNCHANGED nextId
  /\ UNCHANGED <<vendors, rfps, rfpVendors, clock, inbox, pending, batch, handlers>>

\* ProposalService.selectWinner: every proposal of the RFP is set to
\* rejected by a table update, the loaded instance is then updated to
\* selected, and the RFP is set to AWARDED ('deal_sold')
SelectWinner(proposalId) ==
  /\ \E proposal \in proposals :
       /\ proposal.id = proposalId
       /\ LET rejected == BulkUpdate(proposals, LAMBDA row : row.rfpId = proposal.rfpId,
                                     [status |-> "rejected"])
          IN proposals' = InstanceUpdate(rejected, proposal, [status |-> "selected"])
       /\ rfps' = BulkUpdate(rfps, LAMBDA row : row.id = proposal.rfpId,
                             [status |-> "deal_sold"])
  /\ UNCHANGED <<vendors, rfpVendors, nextId, clock, inbox, pending, batch, handlers>>

\* ----- selectWinner, await by await ----------------------------------------
\* selectWinner up to its first write: findOne loads the proposal
SelectStart(c, proposalId) ==
  /\ calls[c].pc = "idle"
  /\ \E proposal \in proposals :
       /\ proposal.id = proposalId
       /\ calls' = [calls EXCEPT ![c] = [IdleCall EXCEPT !.pc = "reject",
                                                         !.op = "selectWinner",
                                                         !.rfpId = proposal.rfpId,
                                                         !.found = proposal]]
  /\ UNCHANGED <<vendors, rfps, rfpVendors, proposals, nextId, clock, inbox, pending,
                 batch, handlers, ret, ai, poller, smtp>>

\* proposalModel.update({ status: REJECTED }, { where: { rfpId } })
SelectReject(c) ==
  /\ calls[c].pc = "reject"
  /\ proposals' = BulkUpdate(proposals, LAMBDA row : row.rfpId = calls[c].rfpId,
                             [status |-> "rejected"])
  /\ calls' = [calls EXCEPT ![c].pc = "select"]
  /\ UNCHANGED <<vendors, rfps, rfpVendors, nextId, clock, inbox, pending, batch,
                 handlers, ret, ai, poller, smtp>>

\* proposal.update({ status: SELECTED }) on the instance loaded at the start
SelectSelect(c) ==
  /\ calls[c].pc = "select"
  /\ proposals' = InstanceUpdate(proposals, calls[c].found, [status |-> "selected"])
  /\ calls' = [calls EXCEPT ![c].pc = "award"]
  /\ UNCHANGED <<vendors, rfps, rfpVendors, nextId, clock, inbox, pending, batch,
                 handlers, ret, ai, poller, smtp>>

\* rfpModel.update({ status: AWARDED }, { where: { id } }), and the return
SelectAward(c) ==
  /\ calls[c].pc = "award"
  /\ rfps' = BulkUpdate(rfps, LAMBDA row : row.id = calls[c].rfpId,
                        [status |-> "deal_sold"])
  /\ calls' = [calls EXCEPT ![c] = IdleCall]
  /\ UNCHANGED <<vendors, rfpVendors, proposals, nextId, clock, inbox, pending, batch,
                 handlers, ret, ai, poller, smtp>>

\* ----- processIncomingEmail: the attachments of a message -----------------
\* kinds of attachment: a PDF pdfParse reads, a PDF pdfParse throws on, a
\* text file with content, a text file of length 0, a file of another type
\* than PDF and text/* (skipped), and such a file without a filename, on
\* which attachment.filename.endsWith throws
AttachmentKinds == {"pdf", "badpdf", "text", "empty", "other", "noname"}

\* the attachments of a message, the filename of the i-th being i
AttachmentLists == UNION {[1..n -> AttachmentKinds] : n \in 0..MaxAttachments}

\* the try block throws before content is read
ExtractionThrows(kind) == kind \in {"badpdf", "noname"}

\* the content read from an attachment, tagged by its filename; '' is null
ExtractedContent(kind, filename) == IF kind \in {"pdf", "text"} THEN filename ELSE Null

\* fault variant: the body of the loop without its try block, a throw ends
\* the handling of the message
AttachmentStep_NoCatch(acc, kind, filename) ==
  IF ExtractionThrows(kind)
    THEN [acc EXCEPT !.aborted = TRUE]
    ELSE LET content == ExtractedContent(kind, filename)
         IN [acc EXCEPT
               !.contents = IF content # Null THEN Append(@, content) ELSE @,
               !.info = Append(@, [filename |-> filename, parsedContent |-> content])]

\* the body of the loop over email.attachments: the content is pushed to
\* attachmentContents when it is not empty and the metadata with the content
\* to attachmentInfo; the catch pushes the metadata without content
AttachmentStep(acc, kind, filename) ==
  IF ExtractionThrows(kind)
    THEN [acc EXCEPT
            !.info = Append(@, [filename |-> filename, parsedContent |-> Null])]
    ELSE LET content == ExtractedContent(kind, filename)
         IN [acc EXCEPT
               !.contents = IF content # Null THEN Append(@, content) ELSE @,
               !.info = Append(@, [filename |-> filename, parsedContent |-> content])]

\* the loop over email.attachments from the i-th on
RECURSIVE AttachmentLoop(_, _, _)
AttachmentLoop(acc, atts, i) ==
  IF i > Len(atts) \/ acc.aborted THEN acc
  ELSE AttachmentLoop(AttachmentStep(acc, atts[i], i), atts, i + 1)

\* processIncomingEmail from the attachments to the AI parse call: the
\* metadata is stored on the proposal and the contents are the second
\* argument of parseVendorResponse
ProcessAttachmentsCall(atts) ==
  /\ LET end == AttachmentLoop([contents |-> <<>>, info |-> <<>>, aborted |-> FALSE],
                               atts, 1)
     IN ret' = [op |-> "processAttachments", atts |-> atts,
                status |-> IF end.aborted THEN "Error" ELSE "ok",
                stored |-> IF end.aborted THEN <<>> ELSE end.info,
                parsed |-> IF end.aborted THEN <<>> ELSE end.contents]
  /\ UNCHANGED <<vendors, rfps, rfpVendors, proposals, nextId, clock, inbox, pending,
                 batch, handlers, calls, ai, poller, smtp>>

\* ----- ComparisonService --------------------------------------------------
\* the RFP a comparison loads: its budget and required delivery days, each
\* possibly null
ComparedRfps == [budget : {Unknown, 10000}, deliveryDays : {Unknown, 10}]

\* a row of proposalModel.findAll({ where: { rfpId } }) with the columns the
\* comparison reads
ComparedRows ==
  {[totalPrice |-> Unknown, deliveryDays |-> Unknown, aiScore |-> Unknown],
   [totalPrice |-> 0, deliveryDays |-> 7, aiScore |-> 80],
   [totalPrice |-> 9000, deliveryDays |-> 7, aiScore |-> Unknown],
   [totalPrice |-> 9000, deliveryDays |-> Unknown, aiScore |-> 80],
   [totalPrice |-> 11000, deliveryDays |-> 7, aiScore |-> 80],
   [totalPrice |-> 11000, deliveryDays |-> Unknown, aiScore |-> Unknown]}

\* the results of findAll: the rows in the order the database returns them,
\* each with the name of its vendor
Found(n) ==
  {[i \in 1..n |-> [vendorName |-> i, totalPrice |-> rows[i].totalPrice,
                    deliveryDays |-> rows[i].deliveryDays,
                    aiScore |-> rows[i].aiScore]] : rows \in [1..n -> ComparedRows]}

\* the RFPs and the rows of a comparison of delivery times: a required
\* number of days of none or 10, and rows with no days, 0, 7 or 14 days
DeliveryRfps == [budget : {Unknown}, deliveryDays : {Unknown, 10}]

DeliveryFound(n) ==
  {[i \in 1..n |-> [vendorName |-> i, totalPrice |-> Unknown,
                    deliveryDays |-> days[i], aiScore |-> Unknown]] :
     days \in [1..n -> {Unknown, 0, 7, 14}]}

\* Array.prototype.sort with a comparator a - b over the keys of the
\* entries: ascending and stable, an entry is put behind the entries whose
\* key is not greater
RECURSIVE SortAscending(_)
SortAscending(seq) ==
  IF seq = <<>> THEN <<>>
  ELSE LET head == SortAscending(SubSeq(seq, 1, Len(seq) - 1))
           x == seq[Len(seq)]
           before == SelectSeq(head, LAMBDA y : y.key <= x.key)
           after == SelectSeq(head, LAMBDA y : y.key > x.key)
       IN before \o <<x>> \o after

\* fault variant: DECIMAL columns read as numbers, 0 is falsy
Truthy_Number(v) == v # Unknown /\ v # 0

\* the truthiness of a DECIMAL column as read from Postgres: a string such
\* as "0.00" when the column holds a value, null otherwise
Truthy(v) == v # Unknown

\* ComparisonService.buildPriceComparison
buildPriceComparison(found, budget) ==
  LET kept == SelectSeq(found, LAMBDA p : p.totalPrice # Unknown)
      sorted == SortAscending([i \in 1..Len(kept) |->
                                 [key |-> kept[i].totalPrice, p |-> kept[i]]])
  IN [index \in 1..Len(sorted) |->
        [vendorName |-> sorted[index].p.vendorName,
         price |-> sorted[index].p.totalPrice,
         percentOfBudget |->
           IF Truthy(budget) /\ Truthy(sorted[index].p.totalPrice)
             THEN (sorted[index].p.totalPrice * 100) \div budget
             ELSE Unknown,
         ranking |-> index]]

\* ComparisonService.buildDeliveryComparison: deliveryDays is an INTEGER
\* column, read as a number; deliveryDays || 999 is the sort key
buildDeliveryComparison(found, requiredDays) ==
  LET days(p) == IF p.deliveryDays = 0 THEN 999 ELSE p.deliveryDays
      kept == SelectSeq(found, LAMBDA p : p.deliveryDays # Unknown)
      sorted == SortAscending([i \in 1..Len(kept) |->
                                 [key |-> days(kept[i]), p |-> kept[i]]])
  IN [index \in 1..Len(sorted) |->
        [vendorName |-> sorted[index].p.vendorName,
         days |-> sorted[index].p.deliveryDays,
         meetsRequirement |->
           IF requiredDays # Unknown /\ requiredDays # 0
             THEN days(sorted[index].p) <= requiredDays
             ELSE TRUE,
         ranking |-> index]]

\* ComparisonService.buildScoreComparison: descending by score
buildScoreComparison(found) ==
  LET kept == SelectSeq(found, LAMBDA p : p.aiScore # Unknown)
      sorted == SortAscending([i \in 1..Len(kept) |->
                                 [key |-> 0 - kept[i].aiScore, p |-> kept[i]]])
  IN [index \in 1..Len(sorted) |->
        [vendorName |-> sorted[index].p.vendorName,
         score |-> sorted[index].p.aiScore,
         ranking |-> index]]

\* ComparisonService.compareProposals for an RFP that exists: the summaries
\* of the Responses and the three rankings, all empty without Responses
compareProposals(rfp, found) ==
  [proposals |-> found,
   priceComparison |->
     IF found = <<>> THEN <<>> ELSE buildPriceComparison(found, rfp.budget),
   deliveryComparison |->
     IF found = <<>> THEN <<>> ELSE buildDeliveryComparison(found, rfp.deliveryDays),
   scoreComparison |->
     IF found = <<>> THEN <<>> ELSE buildScoreComparison(found)]

\* GET /comparison/:rfpId; rfp is NoRow when findByPk finds no RFP
CompareCall(rfp, found) ==
  /\ ret' = IF rfp = NoRow
             THEN [op |-> "compare", rfp |-> rfp, found |-> found,
                   status |-> "NotFound"]
             ELSE [op |-> "compare", rfp |-> rfp, found |-> found, status |-> "ok",
                   result |-> compareProposals(rfp, found)]
  /\ UNCHANGED <<vendors, rfps, rfpVendors, proposals, nextId, clock, inbox, pending,
                 batch, handlers, calls, ai, poller, smtp>>

\* ComparisonService.getAiRecommendation: a fixed answer without Responses,
\* else the answer of aiService.compareProposalsAndRecommend, whose failure
\* is logged and thrown again
GetAiRecommendationCall(rfp, found, aiOk) ==
  /\ ret' = [op |-> "recommend", rfp |-> rfp, found |-> found, aiOk |-> aiOk,
             status |-> IF rfp = NoRow THEN "NotFound"
                        ELSE IF found = <<>> \/ aiOk THEN "ok" ELSE "AiError",
             aiRecommendation |->
               IF rfp = NoRow THEN "none"
               ELSE IF found = <<>> THEN "No proposals received yet."
               ELSE IF aiOk THEN "recommendation" ELSE "none"]
  /\ UNCHANGED <<vendors, rfps, rfpVendors, proposals, nextId, clock, inbox, pending,
                 batch, handlers, calls, ai, poller, smtp>>

\* fault variant: the recommendation is awaited outside a try block
GetFullComparisonCall_NoCatch(rfp, found, aiOk) ==
  /\ ret' = IF rfp = NoRow
             THEN [op |-> "fullComparison", rfp |-> rfp, found |-> found,
                   aiOk |-> aiOk, status |-> "NotFound"]
             ELSE IF found # <<>> /\ ~aiOk
             THEN [op |-> "fullComparison", rfp |-> rfp, found |-> found,
                   aiOk |-> aiOk, status |-> "AiError"]
             ELSE [op |-> "fullComparison", rfp |-> rfp, found |-> found,
                   aiOk |-> aiOk, status |-> "ok",
                   result |-> compareProposals(rfp, found),
                   aiRecommendation |->
                     IF found # <<>> THEN "recommendation" ELSE "omitted"]
  /\ UNCHANGED <<vendors, rfps, rfpVendors, proposals, nextId, clock, inbox, pending,
                 batch, handlers, calls, ai, poller, smtp>>

\* ComparisonService.getFullComparison: the result of compareProposals, to
\* which the recommendation is added when there are Responses and
\* getAiRecommendation does not throw
GetFullComparisonCall(rfp, found, aiOk) ==
  /\ ret' = IF rfp = NoRow
             THEN [op |-> "fullComparison", rfp |-> rfp, found |-> found,
                   aiOk |-> aiOk, status |-> "NotFound"]
             ELSE [op |-> "fullComparison", rfp |-> rfp, found |-> found,
                   aiOk |-> aiOk, status |-> "ok",
                   result |-> compareProposals(rfp, found),
                   aiRecommendation |->
                     IF found # <<>> /\ aiOk THEN "recommendation" ELSE "omitted"]
  /\ UNCHANGED <<vendors, rfps, rfpVendors, proposals, nextId, clock, inbox, pending,
                 batch, handlers, calls, ai, poller, smtp>>

\* applyParsedData on the table, for the instance local and parsed data of
\* content src: the parsed columns and status parsed are written; the items
\* are destroyed and created again only when the parsed data has items; the
\* evaluation, when it returns, stores the score and status evaluated, and
\* when it throws nothing more is written
ApplyParsedData(table, local, outcome, evalOk, src) ==
  LET vals == ParsedVals(outcome, src)
      parsed == InstanceUpdate(table, local, vals)
      withItems ==
        IF outcome = "full"
          THEN BulkUpdate(parsed, LAMBDA row : row.id = local.id, [items |-> src])
          ELSE parsed
  IN IF evalOk
       THEN InstanceUpdate(withItems, Merge(local, vals),
                           [aiScore |-> src, status |-> "evaluated"])
       ELSE withItems

\* fault variant: a failed parse leaves the status at parsing
Reparse_NoCatch(id, outcome, evalOk) ==
  /\ \E p \in proposals :
       /\ p.id = id
       /\ p.rawEmailBody # Null
       /\ LET vals == [status |-> "parsing"]
              parsing == InstanceUpdate(proposals, p, vals)
          IN proposals' =
               IF outcome = "fail"
                 THEN parsing
                 ELSE ApplyParsedData(parsing, Merge(p, vals), outcome, evalOk,
                                      p.rawEmailBody)
  /\ UNCHANGED <<vendors, rfps, rfpVendors, nextId, clock, inbox, pending, batch,
                 handlers>>

\* fault variant: a proposal a winner selection has decided is left alone
Reparse_KeepsDecided(id, outcome, evalOk) ==
  /\ \E p \in proposals :
       /\ p.id = id
       /\ p.rawEmailBody # Null
       /\ LET vals == [status |-> "parsing"]
              parsing == InstanceUpdate(proposals, p, vals)
          IN proposals' =
               IF p.status \in {"selected", "rejected"}
                 THEN proposals
               ELSE IF outcome = "fail"
                 THEN InstanceUpdate(parsing, Merge(p, vals), [status |-> "parse_failed"])
                 ELSE ApplyParsedData(parsing, Merge(p, vals), outcome, evalOk,
                                      p.rawEmailBody)
  /\ UNCHANGED <<vendors, rfps, rfpVendors, nextId, clock, inbox, pending, batch,
                 handlers>>

\* ProposalService.reparse of a proposal with a raw body: the status is set
\* to parsing, the stored body is parsed again, and the parsed data is
\* applied; a throw of the parse sets the status parse_failed
Reparse(id, outcome, evalOk) ==
  /\ \E p \in proposals :
       /\ p.id = id
       /\ p.rawEmailBody # Null
       /\ LET vals == [status |-> "parsing"]
              parsing == InstanceUpdate(proposals, p, vals)
          IN proposals' =
               IF outcome = "fail"
                 THEN InstanceUpdate(parsing, Merge(p, vals), [status |-> "parse_failed"])
                 ELSE ApplyParsedData(parsing, Merge(p, vals), outcome, evalOk,
                                      p.rawEmailBody)
  /\ UNCHANGED <<vendors, rfps, rfpVendors, nextId, clock, inbox, pending, batch,
                 handlers>>

\* ProposalService.reparse as a call: the evaluation is called only after a
\* parse that returned; a proposal without a raw body makes the call throw
\* before its first write
ReparseCall(id, outcome, evalOk) ==
  \/ /\ Reparse(id, outcome, evalOk)
     /\ ret' = [op |-> "reparse", proposal |-> id,
                src |-> Row(proposals, id).rawEmailBody, parse |-> outcome,
                eval |-> IF outcome = "fail" THEN "none"
                         ELSE IF evalOk THEN "ok" ELSE "fail",
                status |-> "ok", before |-> Row(proposals, id).status]
  \/ /\ \E p \in proposals : p.id = id /\ p.rawEmailBody = Null
     /\ ret' = [op |-> "reparse", proposal |-> id, src |-> Null, parse |-> "none",
                eval |-> "none", status |-> "Error",
                before |-> Row(proposals, id).status]
     /\ UNCHANGED <<vendors, rfps, rfpVendors, proposals, nextId, clock, inbox,
                    pending, batch, handlers>>

\* ProposalService.selectWinner as a call
SelectWinnerCall(proposalId) ==
  /\ SelectWinner(proposalId)
  /\ ret' = [op |-> "selectWinner", proposal |-> proposalId, status |-> "ok"]

\* ProposalService.createManualProposal as a call: the proposal it returns,
\* or the not-found it throws before its first write when findByPk finds no
\* RFP or no vendor row of the id
CreateManualProposalCall(rfpId, vendorId, data, evalOk) ==
  \/ /\ CreateManualProposal(rfpId, vendorId, data, evalOk)
     /\ ret' = [op |-> "createManualProposal", id |-> rfpId, vendorId |-> vendorId,
                data |-> data, evalOk |-> evalOk,
                found |-> ProposalsOf(rfpId, vendorId) # {}, status |-> "ok"]
  \/ /\ rfpId \notin Ids(rfps) \/ vendorId \notin Ids(vendors)
     /\ ret' = [op |-> "createManualProposal", id |-> rfpId, vendorId |-> vendorId,
                data |-> data, evalOk |-> evalOk, found |-> FALSE,
                status |-> "NotFound"]
     /\ UNCHANGED <<vendors, rfps, rfpVendors, proposals, nextId, clock, inbox,
                    pending, batch, handlers>>

\* ----- specifications ----------------------------------------------------
\* the request lifecycle up to the send
Setup(emails, maxRfps) ==
  \/ \E email \in emails : VendorCreate(email) /\ UNCHANGED aux
  \/ \E id \in Ids(vendors) : VendorRemove(id) /\ UNCHANGED aux
  \/ RfpCreate(maxRfps) /\ UNCHANGED aux
  \/ \E id \in Ids(rfps), vendorIds \in SUBSET Ids(vendors), ok \in [Ids(vendors) -> BOOLEAN] :
       RfpSendToVendors(id, vendorIds, ok) /\ UNCHANGED aux

\* the events of the mailbox
Mailbox ==
  \/ \E from \in FromHeaders : Arrive(from) /\ UNCHANGED aux
  \/ Poll /\ UNCHANGED aux

\* the operations on RFPs and proposals after the send
Decision ==
  \/ \E id \in Ids(rfps), patch \in UpdatePatches : RfpUpdate(id, patch) /\ UNCHANGED aux
  \/ \E id \in Ids(rfps), status \in RfpStatus :
       RfpUpdateStatus(id, status) /\ UNCHANGED aux
  \/ \E rfpId \in Ids(rfps), vendorId \in Ids(vendors), data \in ManualInputs,
        evalOk \in BOOLEAN :
       CreateManualProposal(rfpId, vendorId, data, evalOk) /\ UNCHANGED aux
  \/ \E id \in Ids(proposals) : SelectWinner(id) /\ UNCHANGED aux

\* outreach to one vendor and ingestion of the replies: messages arrive,
\* are fetched and emitted while listener runs are in flight, and the runs
\* interleave wherever the code awaits; an HTTP operation is taken between
\* runs
Next ==
  \/ InFlight = {} /\ Setup({"a@v"}, MaxRfps)
  \/ Mailbox
  \/ \E m \in pending : Emit(m) /\ UNCHANGED aux
  \/ \E h \in Slots : HandlerStep(h) /\ UNCHANGED aux

Spec == Init /\ [][Next]_vars

\* the sequential schedules of Spec: the messages of a fetch are emitted in
\* fetch order, each listener run ends before the next one starts, and an
\* HTTP operation is taken between two fetches
NextSeq ==
  \/ InFlight = {} /\ pending = {} /\ Setup({"a@v"}, MaxRfps)
  \/ InFlight = {} /\ Mailbox
  \/ InFlight = {} /\ \E m \in pending : (\A k \in pending : m <= k) /\ Emit(m) /\ UNCHANGED aux
  \/ \E h \in Slots : HandlerStep(h) /\ UNCHANGED aux

SpecSeq == Init /\ [][NextSeq]_vars

\* the operations of the HTTP surface on two vendors, one RFP and its
\* proposals, one call at a time, without the mailbox
NextDecision ==
  \/ Setup(VendorEmails, 1)
  \/ Decision

SpecDecision == Init /\ [][NextDecision]_vars

\* RFP authoring: creation, from structured data or from text, and update,
\* with the results of the calls
NextRfp ==
  \/ RfpCreateCall(MaxRfps) /\ UNCHANGED <<calls, ai, poller, smtp>>
  \/ \E aiOk \in BOOLEAN :
       RfpCreateFromNaturalLanguage(MaxRfps, aiOk) /\ UNCHANGED <<calls, ai, poller, smtp>>
  \/ \E id \in Ids(rfps), patch \in UpdatePatches :
       RfpUpdateCall(id, patch) /\ UNCHANGED <<calls, ai, poller, smtp>>

SpecRfp == Init /\ [][NextRfp]_vars

\* the calls of the vendor registry, one at a time
NextVendor ==
  \/ \E email \in VendorEmails :
       /\ nextId.vendor <= MaxVendors \/ \E v \in vendors : v.email = email
       /\ VendorCreateCall(email)
       /\ UNCHANGED <<calls, ai, poller, smtp>>
  \/ \E id \in 1..MaxVendors, email \in VendorEmails, unique \in BOOLEAN :
       VendorUpdateCall(id, email, unique) /\ UNCHANGED <<calls, ai, poller, smtp>>
  \/ \E id \in 1..MaxVendors : VendorRemoveCall(id) /\ UNCHANGED <<calls, ai, poller, smtp>>

SpecVendor == Init /\ [][NextVendor]_vars

\* the calls around the send of an RFP, one at a time
NextSend ==
  \/ \E email \in VendorEmails : VendorCreateCall(email) /\ UNCHANGED <<calls, ai, poller, smtp>>
  \/ \E id \in Ids(vendors) : VendorRemoveCall(id) /\ UNCHANGED <<calls, ai, poller, smtp>>
  \/ RfpCreateCall(1) /\ UNCHANGED <<calls, ai, poller, smtp>>
  \/ \E id \in Ids(rfps), status \in {"draft", "deal_sold"} :
       RfpUpdateStatusCall(id, status) /\ UNCHANGED <<calls, ai, poller, smtp>>
  \/ \E id \in Ids(rfps), vendorId \in Ids(vendors) :
       RfpAddVendorCall(id, vendorId) /\ UNCHANGED <<calls, ai, poller, smtp>>
  \/ \E id \in Ids(rfps), vendorIds \in SUBSET Ids(vendors) :
       \E good \in SUBSET vendorIds :
         /\ RfpSendToVendorsCall(id, vendorIds, [v \in Ids(vendors) |-> v \in good])
         /\ UNCHANGED <<calls, ai, poller, smtp>>

SpecSend == Init /\ [][NextSend]_vars

\* ingestion of replies, one listener run at a time with the messages of a
\* fetch emitted in the order their parsing ends, and re-parses between
\* runs, with the outcomes of the AI calls observed
NextParse ==
  \/ InFlight = {} /\ pending = {} /\ Setup({"a@v"}, 1)
  \/ InFlight = {} /\ Mailbox
  \/ InFlight = {} /\ \E m \in pending : Emit(m) /\ UNCHANGED aux
  \/ \E h \in Slots :
       /\ \/ HInit(h) \/ HVendor(h) \/ HAssign(h) \/ HFind(h) \/ HUpsert(h)
          \/ HRespond(h) \/ HAdvance(h) \/ HDestroy(h) \/ HBulk(h)
       /\ UNCHANGED aux
  \/ \E h \in Slots, outcome \in ParseOutcomes :
       HParseCall(h, outcome) /\ UNCHANGED <<calls, ai, poller, smtp>>
  \/ \E h \in Slots, ok \in BOOLEAN :
       HEvalCall(h, ok) /\ UNCHANGED <<calls, ai, poller, smtp>>
  \/ \E id \in Ids(proposals), outcome \in ParseOutcomes, evalOk \in BOOLEAN :
       /\ InFlight = {} /\ pending = {}
       /\ ReparseCall(id, outcome, evalOk)
       /\ UNCHANGED <<calls, ai, poller, smtp>>

SpecParse == Init /\ [][NextParse]_vars

\* assignments added, sent and removed by whole calls, with proposals on the
\* RFP
NextAssign ==
  \/ \E email \in VendorEmails : VendorCreateCall(email) /\ UNCHANGED <<calls, ai, poller, smtp>>
  \/ RfpCreateCall(1) /\ UNCHANGED <<calls, ai, poller, smtp>>
  \/ \E id \in Ids(rfps), vendorId \in Ids(vendors) :
       /\ nextId.rfpVendor <= MaxAssignments
       /\ RfpAddVendorCall(id, vendorId)
       /\ UNCHANGED <<calls, ai, poller, smtp>>
  \/ \E id \in Ids(rfps), vendorId \in 1..MaxVendors :
       RfpRemoveVendorCall(id, vendorId) /\ UNCHANGED <<calls, ai, poller, smtp>>
  \/ \E id \in Ids(rfps), vendorId \in Ids(vendors) :
       /\ nextId.rfpVendor <= MaxAssignments
       /\ RfpSendToVendorsCall(id, {vendorId}, [v \in Ids(vendors) |-> TRUE])
       /\ UNCHANGED <<calls, ai, poller, smtp>>
  \/ \E id \in Ids(rfps), vendorId \in Ids(vendors), data \in ManualInputs :
       CreateManualProposalCall(id, vendorId, data, TRUE)
         /\ UNCHANGED <<calls, ai, poller, smtp>>

SpecAssign == Init /\ [][NextAssign]_vars

\* addVendorToRfp and sendToVendors calls on the same tables, interleaved at
\* their awaits
NextCalls ==
  \/ VendorCreate("a@v") /\ UNCHANGED aux
  \/ \E id \in Ids(vendors) : VendorRemove(id) /\ UNCHANGED aux
  \/ RfpCreate(1) /\ UNCHANGED aux
  \/ \E c \in CallSlots, op \in {"addVendorToRfp", "sendToVendors"},
        rfpId \in Ids(rfps), vendorId \in Ids(vendors) :
       CallStart(c, op, rfpId, vendorId)
  \/ \E c \in CallSlots : CallFind(c)
  \/ \E c \in CallSlots : CallWrite(c)
  \/ \E c \in CallSlots : CallStatus(c)

SpecCalls == Init /\ [][NextCalls]_vars

\* a sendToVendors call, await by await, while replies arrive and are
\* ingested one listener run at a time
NextRace ==
  \/ VendorCreate("a@v") /\ UNCHANGED aux
  \/ RfpCreate(1) /\ UNCHANGED aux
  \/ \E rfpId \in Ids(rfps), vendorId \in Ids(vendors) :
       CallStart(1, "sendToVendors", rfpId, vendorId)
  \/ CallFind(1)
  \/ CallWrite(1)
  \/ CallStatus(1)
  \/ InFlight = {} /\ Mailbox
  \/ InFlight = {} /\ \E m \in pending : Emit(m) /\ UNCHANGED aux
  \/ \E h \in Slots : HandlerStep(h) /\ UNCHANGED aux

SpecRace == Init /\ [][NextRace]_vars

\* selectWinner calls on the proposals of one RFP, interleaved at their
\* awaits
NextSelect ==
  \/ \E email \in VendorEmails : VendorCreate(email) /\ UNCHANGED aux
  \/ RfpCreate(1) /\ UNCHANGED aux
  \/ \E rfpId \in Ids(rfps), vendorId \in Ids(vendors), data \in ManualInputs :
       CreateManualProposal(rfpId, vendorId, data, TRUE) /\ UNCHANGED aux
  \/ \E c \in CallSlots, id \in Ids(proposals) : SelectStart(c, id)
  \/ \E c \in CallSlots : SelectReject(c)
  \/ \E c \in CallSlots : SelectSelect(c)
  \/ \E c \in CallSlots : SelectAward(c)

SpecSelect == Init /\ [][NextSelect]_vars

\* re-parses of the proposals of one RFP, entered by hand with or without a
\* raw body, between winner selections
NextReparse ==
  \/ \E email \in VendorEmails : VendorCreateCall(email) /\ UNCHANGED <<calls, ai, poller, smtp>>
  \/ RfpCreateCall(1) /\ UNCHANGED <<calls, ai, poller, smtp>>
  \/ \E id \in Ids(rfps), vendorId \in Ids(vendors) :
       RfpAddVendorCall(id, vendorId) /\ UNCHANGED <<calls, ai, poller, smtp>>
  \/ \E id \in Ids(rfps), vendorId \in Ids(vendors), data \in ManualInputs :
       CreateManualProposalCall(id, vendorId, data, TRUE)
         /\ UNCHANGED <<calls, ai, poller, smtp>>
  \/ \E id \in Ids(proposals) :
       SelectWinnerCall(id) /\ UNCHANGED <<calls, ai, poller, smtp>>
  \/ \E id \in Ids(proposals), outcome \in ParseOutcomes, evalOk \in BOOLEAN :
       ReparseCall(id, outcome, evalOk) /\ UNCHANGED <<calls, ai, poller, smtp>>

SpecReparse == Init /\ [][NextReparse]_vars

\* proposals entered by hand for one vendor and one RFP, for ids with and
\* without a row (no row has id 0), between winner selections
NextManual ==
  \/ VendorCreateCall("a@v") /\ UNCHANGED <<calls, ai, poller, smtp>>
  \/ \E id \in Ids(vendors) : VendorRemoveCall(id) /\ UNCHANGED <<calls, ai, poller, smtp>>
  \/ RfpCreateCall(1) /\ UNCHANGED <<calls, ai, poller, smtp>>
  \/ \E id \in Ids(rfps), vendorId \in Ids(vendors) :
       RfpAddVendorCall(id, vendorId) /\ UNCHANGED <<calls, ai, poller, smtp>>
  \/ \E id \in Ids(rfps) \cup {0}, vendorId \in Ids(vendors) \cup {0},
        data \in ManualInputs, evalOk \in BOOLEAN :
       CreateManualProposalCall(id, vendorId, data, evalOk)
         /\ UNCHANGED <<calls, ai, poller, smtp>>
  \/ \E id \in Ids(proposals) :
       SelectWinnerCall(id) /\ UNCHANGED <<calls, ai, poller, smtp>>

SpecManual == Init /\ [][NextManual]_vars

\* the attachments of one message, one message per behaviour
NextAttach ==
  \E atts \in AttachmentLists : ret = NoCall /\ ProcessAttachmentsCall(atts)

SpecAttach == Init /\ [][NextAttach]_vars

\* the polling loop from the start of the module on; the timer fires
NextPoll ==
  \/ \E outcome \in PassOutcomes : StartImapPolling(outcome)
  \/ \E outcome \in PassOutcomes : PollPass(outcome)

SpecPoll ==
  /\ Init
  /\ [][NextPoll]_vars
  /\ WF_vars(\E outcome \in PassOutcomes : StartImapPolling(outcome))
  /\ WF_vars(\E outcome \in PassOutcomes : PollPass(outcome))

\* the polling of one process: module init starts it, the two polling
\* endpoints start it again and stop it, the timers that are set fire
NextPolling ==
  \/ \E outcome \in PassOutcomes : StartImapPolling(outcome)
  \/ \E outcome \in PassOutcomes : startPolling(outcome)
  \/ StopImapPolling
  \/ \E outcome \in PassOutcomes : PollPass(outcome)

SpecPolling == Init /\ [][NextPolling]_vars

\* sendEmail calls, one after the other; the server answers every attempt
\* and every timer fires
NextSmtp ==
  \/ SmtpStart
  \/ \E answer \in SmtpAnswers : SmtpAttempt(answer)
  \/ SmtpWait

SpecSmtp ==
  /\ Init
  /\ [][NextSmtp]_vars
  /\ WF_vars(\E answer \in SmtpAnswers : SmtpAttempt(answer))
  /\ WF_vars(SmtpWait)

\* one call of a comparison endpoint, over every RFP and every result of
\* the Response lookup; the calls write nothing, so one call per behaviour
\* shows them all
NextCompare ==
  \/ \E rfp \in ComparedRfps \cup {NoRow}, n \in 0..MaxCompared :
       \E found \in Found(n) :
         ret = NoCall /\ CompareCall(rfp, found)
  \/ \E rfp \in ComparedRfps \cup {NoRow}, n \in 0..MaxCompared, aiOk \in BOOLEAN :
       \E found \in Found(n) :
         ret = NoCall /\ GetAiRecommendationCall(rfp, found, aiOk)
  \/ \E rfp \in ComparedRfps \cup {NoRow}, n \in 0..MaxCompared, aiOk \in BOOLEAN :
       \E found \in Found(n) :
         ret = NoCall /\ GetFullComparisonCall(rfp, found, aiOk)

SpecCompare == Init /\ [][NextCompare]_vars

\* comparisons of the delivery times of the Responses of an RFP, one call per
\* behaviour
NextDelivery ==
  \E rfp \in DeliveryRfps, n \in 0..MaxCompared :
    \E found \in DeliveryFound(n) :
      ret = NoCall /\ CompareCall(rfp, found)

SpecDelivery == Init /\ [][NextDelivery]_vars

\* generateJSON operations, one after the other; the provider answers every
\* call and every timer fires
NextAi ==
  \/ AiStart
  \/ \E answer \in ProviderAnswers : AiAttempt(answer)
  \/ AiSleep

SpecAi ==
  /\ Init
  /\ [][NextAi]_vars
  /\ WF_vars(\E answer \in ProviderAnswers : AiAttempt(answer))
  /\ WF_vars(AiSleep)

\* ----- properties --------------------------------------------------------
\* the rows of the listener run h, as the tables hold them
RvOf(table, h) == {rv \in table : rv.id = handlers[h].rv.id}
RfpOf(table, h) == {r \in table : r.id = handlers[h].rfp.id}
PairOf(table, h) ==
  {p \in table : p.rfpId = handlers[h].rfp.id /\ p.vendorId = handlers[h].vendor}

\* the run h takes a step
Steps(h) == handlers'[h] # handlers[h]

\* the address of a from header: its token that is an address
AddressOf(from) ==
  CHOOSE a \in VendorEmails \cup {UnknownEmail} : \E i \in 1..Len(from) : from[i] = a

\* the non-deleted vendors with the address of message m
SendersOf(m) == {v \in vendors : ~v.isDeleted /\ v.email = AddressOf(inbox[m])}

\* C1: at most one Response per (request, vendor) pair, in every reachable
\* state, also when the listener runs of one batch interleave
C1_OneResponsePerPair ==
  \A p \in proposals, q \in proposals :
    (p.rfpId = q.rfpId /\ p.vendorId = q.vendorId) => p.id = q.id

\* C2: when a first message of a vendor was ingested for the vendor's one
\* Assignment, the run of a second message of that vendor ends with exactly
\* one Response of the pair, and its raw fields are those of the second
\* message
C2_SecondMessageWins ==
  [][\A i \in Slots, j \in Slots, p \in proposals :
       ( /\ handlers[i].pc = "done"
         /\ handlers[i].prop.id = p.id
         /\ handlers[i].msg # handlers[j].msg
         /\ handlers[j].pc \notin {"idle", "init", "vendor", "done"}
         /\ handlers[j].vendor = p.vendorId
         /\ \A rv \in rfpVendors : rv.vendorId = p.vendorId => rv.rfpId = p.rfpId
         /\ Cardinality({rv \in rfpVendors : rv.vendorId = p.vendorId}) = 1
         /\ handlers'[j].pc = "done" )
       => /\ Cardinality({q \in proposals' :
                            q.rfpId = p.rfpId /\ q.vendorId = p.vendorId}) = 1
          /\ \A q \in proposals' :
               (q.rfpId = p.rfpId /\ q.vendorId = p.vendorId)
               => /\ q.rawEmailBody = handlers[j].msg
                  /\ q.emailSubject = handlers[j].msg
                  /\ q.emailReceivedAt = handlers[j].msg
                  /\ q.emailMessageId = handlers[j].msg
                  /\ q.attachments = handlers[j].msg]_vars

\* C3: selectWinner(x) on a Request with at least two Responses leaves x
\* selected, every other Response of the Request rejected and the Request
\* deal_sold, whatever the statuses were before
C3_SelectionExclusive ==
  [][\A x \in proposals :
       ( /\ SelectWinner(x.id)
         /\ Cardinality({p \in proposals : p.rfpId = x.rfpId}) >= 2 )
       => /\ \A p \in proposals' :
               p.rfpId = x.rfpId =>
                 p.status = (IF p.id = x.id THEN "selected" ELSE "rejected")
          /\ \A r \in rfps' : r.id = x.rfpId => r.status = "deal_sold"]_vars

\* C4: when the AI parse call of a run fails, the run ends with the
\* Response parse_failed, the Assignment responded and the Request
\* evaluating
C4_ParseFailureKeepsSideEffects ==
  [][\A h \in Slots :
       (handlers[h].pc = "parse" /\ handlers'[h].pc = "done")
       => /\ \A p \in proposals' :
               p.id = handlers'[h].prop.id => p.status = "parse_failed"
          /\ handlers'[h].prop.id \in Ids(proposals')
          /\ \A rv \in RvOf(rfpVendors', h) : rv.status = "responded"
          /\ \A r \in RfpOf(rfps', h) : r.status = "evaluating"]_vars

C4_Witness ==
  \E h \in Slots, p \in proposals, rv \in rfpVendors, r \in rfps :
    /\ handlers[h].pc = "done"
    /\ p.id = handlers[h].prop.id
    /\ p.status = "parse_failed"
    /\ rv.rfpId = p.rfpId /\ rv.vendorId = p.vendorId /\ rv.status = "responded"
    /\ r.id = p.rfpId /\ r.status = "evaluating"

\* C5: a message whose sender is no non-deleted vendor, or whose vendor has
\* no Assignment in status sent, is dropped: no step of its run changes a
\* Response, an Assignment or a Request, the run never gets past the
\* lookups (so the AI Gateway is not called) and it returns null
Dropped(h) ==
  /\ handlers[h].pc \in {"init", "vendor", "assign"}
  /\ \A v \in SendersOf(handlers[h].msg) :
       ~\E rv \in rfpVendors : rv.vendorId = v.id /\ rv.status = "sent"

C5_DroppedMessageChangesNothing ==
  [][\A h \in Slots :
       (Dropped(h) /\ Steps(h))
       => /\ UNCHANGED <<proposals, rfpVendors, rfps, vendors>>
          /\ handlers'[h].pc \in {"vendor", "assign", "done"}
          /\ handlers'[h].pc = "done" => handlers'[h].prop.id = Null]_vars

C5_Witness ==
  \E h \in Slots, v \in vendors :
    /\ handlers[h].pc = "done"
    /\ handlers[h].prop.id = Null
    /\ v.email = AddressOf(inbox[handlers[h].msg])
    /\ v.isDeleted
    /\ \E rv \in rfpVendors : rv.vendorId = v.id /\ rv.status = "sent"

\* C6: a message is attributed to the sent Assignment of its vendor with
\* the latest sent time, and its run changes only that Assignment, that
\* Request and the Responses of that pair
C6_LatestSentAssignment ==
  [][\A h \in Slots :
       /\ (handlers[h].pc = "assign" /\ handlers'[h].pc = "find")
          => /\ handlers'[h].rv \in rfpVendors
             /\ handlers'[h].rv.status = "sent"
             /\ handlers'[h].rv.vendorId \in {v.id : v \in SendersOf(handlers[h].msg)}
             /\ handlers'[h].rfp.id = handlers'[h].rv.rfpId
             /\ \A o \in rfpVendors :
                  (o.vendorId = handlers'[h].rv.vendorId /\ o.status = "sent")
                  => o.sentAt <= handlers'[h].rv.sentAt
       /\ (handlers[h].pc \notin {"idle", "done"} /\ Steps(h))
          => /\ rfpVendors \ RvOf(rfpVendors, h) = rfpVendors' \ RvOf(rfpVendors', h)
             /\ rfps \ RfpOf(rfps, h) = rfps' \ RfpOf(rfps', h)
             /\ proposals \ PairOf(proposals, h) = proposals' \ PairOf(proposals', h)
             /\ handlers[h].pc \notin {"init", "vendor", "assign"}
                => /\ handlers'[h].pc # "done" => handlers'[h].rv.id = handlers[h].rv.id
                   /\ handlers'[h].pc # "done" => handlers'[h].rfp.id = handlers[h].rfp.id
                   /\ \A p \in proposals' :
                        p.id = handlers'[h].prop.id =>
                          /\ p.rfpId = handlers[h].rfp.id
                          /\ p.vendorId = handlers[h].vendor]_vars

C6_Witness ==
  \E h \in Slots, p \in proposals, rv \in rfpVendors, o \in rfpVendors :
    /\ handlers[h].pc = "done"
    /\ p.id = handlers[h].prop.id
    /\ rv.rfpId = p.rfpId /\ rv.vendorId = p.vendorId /\ rv.status = "responded"
    /\ o.vendorId = p.vendorId /\ o.rfpId # p.rfpId /\ o.status = "sent"
    /\ o.sentAt < rv.sentAt
    /\ \A q \in proposals : q.rfpId = p.rfpId
    /\ \A r \in rfps : r.id = o.rfpId => r.status = "sent"

\* C7: the re-delivery of a message that was already ingested collapses
\* onto the same Response row: its run returns the Response of the first
\* run, or nothing, never a Response of another Request or a second row
C7_RedeliveryCollapses ==
  \A i \in Slots, j \in Slots :
    ( /\ i < j
      /\ handlers[i].pc = "done"
      /\ handlers[j].pc = "done"
      /\ handlers[i].msg = handlers[j].msg
      /\ handlers[i].prop.id # Null )
    => handlers[j].prop.id \in {Null, handlers[i].prop.id}

\* C8: the messages of one batch are handled one at a time: at most one
\* listener run of the current fetch is in flight
C8_BatchHandledOneAtATime == Cardinality(batch \cap InFlight) <= 1

\* C9: the Assignment is marked responded once the Response exists; when
\* the AI parse call starts the Assignment is responded and the Request is
\* evaluating, and no later step of the run touches either
C9_SideEffectsBeforeParse ==
  [][\A h \in Slots :
       /\ (handlers[h].pc = "respond" /\ Steps(h))
          => PairOf(proposals, h) # {}
       /\ (handlers[h].pc # "parse" /\ handlers'[h].pc = "parse")
          => /\ PairOf(proposals', h) # {}
             /\ \A rv \in RvOf(rfpVendors', h) : rv.status = "responded"
             /\ \A r \in RfpOf(rfps', h) : r.status = "evaluating"
       /\ (handlers[h].pc \in {"parse", "destroy", "bulk", "eval"} /\ Steps(h))
          => UNCHANGED <<rfpVendors, rfps>>]_vars

C9_Witness ==
  \E h \in Slots, p \in proposals, rv \in rfpVendors, r \in rfps :
    /\ handlers[h].pc = "done"
    /\ p.id = handlers[h].prop.id
    /\ p.status = "evaluated"
    /\ rv.rfpId = p.rfpId /\ rv.vendorId = p.vendorId /\ rv.status = "responded"
    /\ r.id = p.rfpId /\ r.status = "evaluating"

\* the legal edges of a Request's status
LegalEdges ==
  {<<"draft", "sent">>, <<"sent", "evaluating">>, <<"evaluating", "deal_sold">>,
   <<"sent", "closed">>, <<"evaluating", "closed">>}

\* C10: every change of a Request's status follows a legal edge
C10_LegalStatusEdges ==
  [][\A r \in rfps, t \in rfps' :
       (r.id = t.id /\ r.status # t.status) => <<r.status, t.status>> \in LegalEdges]_vars

\* C11: once selectWinner has left a Request deal_sold with a selected
\* Response, no step of another operation takes the Request out of
\* deal_sold or the Response out of selected
C11_SelectionIrreversible ==
  [][(~\E id \in Ids(proposals) : SelectWinner(id))
     => \A x \in proposals, r \in rfps :
          (x.status = "selected" /\ r.id = x.rfpId /\ r.status = "deal_sold")
          => /\ \E t \in rfps' : t.id = r.id /\ t.status = "deal_sold"
             /\ \E y \in proposals' : y.id = x.id /\ y.status = "selected"]_vars

\* C12: an update call with an items field on an RFP that is not a draft
\* ends in a bad request and writes nothing, and the line items of an RFP
\* change only in a step that finds it in status draft
C12_ItemsOnlyInDraft ==
  [][/\ ( /\ ret'.op = "update"
          /\ "items" \in DOMAIN ret'.patch
          /\ \E r \in rfps : r.id = ret'.id /\ r.status # "draft" )
        => (ret'.status = "BadRequest" /\ UNCHANGED <<rfps, nextId>>)
     /\ \A r \in rfps, t \in rfps' :
          (r.id = t.id /\ r.items # t.items) => r.status = "draft"]_vars

C12_Witness ==
  /\ ret.op = "update"
  /\ ret.status = "BadRequest"
  /\ ret.patch = [status |-> "draft", items |-> 1]
  /\ \E r \in rfps : r.id = ret.id /\ r.status = "evaluating" /\ r.items = 0
  /\ \E r \in rfps : r.id # ret.id /\ r.status = "draft" /\ r.items = 1

\* C19: a createFromNaturalLanguage call whose AI parse fails surfaces the
\* failure and creates no RFP and no line item
C19_NoRfpOnAiFailure ==
  [][(ret'.op = "createFromNaturalLanguage" /\ ret'.status = "AiError")
     => UNCHANGED <<rfps, nextId, vendors, rfpVendors, proposals>>]_vars

C19_Witness ==
  /\ ret.op = "createFromNaturalLanguage"
  /\ ret.status = "AiError"
  /\ Cardinality(rfps) = 1

\* C13: under any sequence of vendor create, update and remove calls at
\* most one non-deleted vendor holds an email; create on the email of a
\* soft-deleted vendor reactivates that row and adds none; create with, and
\* update to, the email of a non-deleted vendor ends in a conflict and
\* writes nothing
C13_OneActiveVendorPerEmail ==
  /\ [](\A v, w \in vendors :
          (v.email = w.email /\ ~v.isDeleted /\ ~w.isDeleted) => v = w)
  /\ [][/\ (ret'.op = "vendor.create" /\ EmailTaken(ret'.email))
           => (ret'.status = "Conflict" /\ UNCHANGED <<vendors, nextId>>)
        /\ ( /\ ret'.op = "vendor.create"
             /\ ~EmailTaken(ret'.email)
             /\ \E d \in vendors : d.email = ret'.email )
           => /\ ret'.status = "ok"
              /\ Ids(vendors') = Ids(vendors)
              /\ UNCHANGED nextId
              /\ \E d \in vendors :
                   /\ d.email = ret'.email
                   /\ vendors' = (vendors \ {d}) \cup {[d EXCEPT !.isDeleted = FALSE]}
        /\ ( /\ ret'.op = "vendor.update"
             /\ \E v \in vendors : v.id # ret'.id /\ v.email = ret'.email /\ ~v.isDeleted
             /\ VendorFindOne(ret'.id) # {} )
           => (ret'.status = "Conflict" /\ UNCHANGED <<vendors, nextId>>)]_vars

C13_Witness ==
  /\ ret = [op |-> "vendor.create", email |-> "a@v", status |-> "ok"]
  /\ nextId.vendor = 3
  /\ \E v, w \in vendors :
       /\ v.id = 1 /\ v.email = "a@v" /\ ~v.isDeleted
       /\ w.id = 2 /\ w.email = "a@v" /\ w.isDeleted

\* the non-deleted vendors a sendToVendors call names
Resolved(call) == {v \in vendors : v.id \in call.vendorIds /\ ~v.isDeleted}

\* the assignments of a (request, vendor) pair in a table
RowsOf(table, rfpId, vendorId) ==
  {rv \in table : rv.rfpId = rfpId /\ rv.vendorId = vendorId}

\* C14: a sendToVendors call on a sendable RFP with at least one resolved
\* vendor returns counts whatever fails for single vendors; each failing
\* vendor is counted as failed, each other one as sent, and sent + failed is
\* the number of resolved, non-deleted vendors
C14_CountsCoverResolved ==
  [][( /\ ret'.op = "sendToVendors"
       /\ Resolved(ret') # {}
       /\ \E r \in rfps : r.id = ret'.id /\ r.status # "deal_sold" )
     => /\ ret'.status = "ok"
        /\ ret'.failed = Cardinality({v \in Resolved(ret') : ~ret'.ok[v.id]})
        /\ ret'.sent = Cardinality({v \in Resolved(ret') : ret'.ok[v.id]})
        /\ ret'.sent + ret'.failed = Cardinality(Resolved(ret'))]_vars

C14_Witness ==
  /\ ret.op = "sendToVendors"
  /\ ret.status = "ok"
  /\ ret.vendorIds = {1, 2}
  /\ ~ret.ok[1] /\ ret.ok[2]
  /\ ret.sent = 1
  /\ ret.failed = 1
  /\ RowsOf(rfpVendors, ret.id, 1) = {}
  /\ \E rv \in RowsOf(rfpVendors, ret.id, 2) : rv.status = "sent"

\* C15: in a sendToVendors call the assignment of a resolved vendor is set
\* to sent, with a new send time and message id, when the send to the vendor
\* succeeded; the assignments of a vendor whose generation or send failed,
\* and of every vendor not resolved, stay as they were and none is created
C15_SentExactlyOnSuccess ==
  [][(ret'.op = "sendToVendors" /\ ret'.status = "ok")
     => \A vid \in Ids(vendors) :
          IF (\E v \in Resolved(ret') : v.id = vid) /\ ret'.ok[vid]
            THEN \E rv \in RowsOf(rfpVendors', ret'.id, vid) :
                   /\ rv.status = "sent"
                   /\ rv.sentAt > clock /\ rv.sentAt <= clock'
                   /\ rv.emailMessageId = rv.sentAt
                   /\ rv \notin rfpVendors
            ELSE \A rfpId \in Ids(rfps) :
                   RowsOf(rfpVendors', rfpId, vid) = RowsOf(rfpVendors, rfpId, vid)]_vars

C15_Witness ==
  /\ ret.op = "sendToVendors"
  /\ ret.status = "ok"
  /\ ret.vendorIds = {1, 2}
  /\ ret.ok[1] /\ ~ret.ok[2]
  /\ \E rv \in RowsOf(rfpVendors, ret.id, 1) : rv.status = "sent" /\ rv.sentAt = 2
  /\ \E rv \in RowsOf(rfpVendors, ret.id, 2) : rv.status = "sent" /\ rv.sentAt = 1

AssignmentRank(status) ==
  CASE status = "pending" -> 0
    [] status \in {"sent", "delivered"} -> 1
    [] OTHER -> 2

\* C17: the status of an assignment only moves forward along pending, sent,
\* responded (or declined); a responded assignment is never set back to sent
\* or pending
C17_AssignmentForwardOnly ==
  [][\A rv \in rfpVendors, t \in rfpVendors' :
       rv.id = t.id
       => /\ AssignmentRank(rv.status) <= AssignmentRank(t.status)
          /\ rv.status = "responded" => t.status \notin {"sent", "pending"}]_vars

\* C18: there is at most one assignment per (request, vendor) pair, whatever
\* the sequence and interleaving of addVendorToRfp and sendToVendors calls
C18_OneAssignmentPerPair ==
  \A rv, rw \in rfpVendors :
    (rv.rfpId = rw.rfpId /\ rv.vendorId = rw.vendorId) => rv.id = rw.id

\* C20: a generateJSON operation makes at most 5 provider calls; the delay
\* slept after the rate-limit error of attempt i is schedule[min(i, 3)] of
\* 1 s, 30 s, 60 s, 90 s; with a provider that answers every call with a
\* rate-limit error it ends after the 5th call by throwing the last error;
\* it returns at the first attempt that yields parseable JSON; and it ends
C20_BoundedBackoff ==
  /\ [](/\ ai.calls <= 5
        /\ \A i \in 1..Len(ai.waits) :
             ai.waits[i] = <<1000, 30000, 60000, 90000>>[IF i - 1 < 3 THEN i ELSE 4]
        /\ ai.pc = "call" => (Len(ai.waits) = ai.calls /\ Len(ai.errors) = ai.calls)
        /\ (ai.pc = "done" /\ Len(ai.errors) = ai.calls
            /\ \A i \in 1..Len(ai.errors) : ai.errors[i] \in RateLimitErrors)
           => /\ ai.calls = 5
              /\ ai.outcome = "thrown"
              /\ ai.error = ai.errors[5])
  /\ [][(ai.pc = "call" /\ ai'.calls = ai.calls + 1 /\ ai'.errors = ai.errors)
        => (ai'.pc = "done" /\ ai'.outcome = "returned")]_vars
  /\ (ai.pc = "call") ~> (ai.pc = "done")

C20_Witness ==
  /\ ai.pc = "done"
  /\ ai.outcome = "thrown"
  /\ ai.calls = 5
  /\ ai.error = "Resource exhausted"
  /\ ai.errors = <<"429", "429", "Too Many Requests", "429", "Resource exhausted">>
  /\ ai.waits = <<1000, 30000, 60000, 90000, 90000>>

\* C21: an attempt that fails with an error that is not of the rate-limit
\* class (auth, malformed request, network, a reply that does not parse as
\* JSON) ends the operation with that error after this one provider call:
\* no delay is slept and no further call is made
C21_OtherErrorsNotRetried ==
  [][( /\ ai.pc = "call"
       /\ ai'.calls = ai.calls + 1
       /\ Len(ai'.errors) = Len(ai.errors) + 1
       /\ ai'.errors[Len(ai'.errors)] \notin RateLimitErrors )
     => /\ ai'.pc = "done"
        /\ ai'.outcome = "thrown"
        /\ ai'.error = ai'.errors[Len(ai'.errors)]
        /\ ai'.waits = ai.waits]_vars

TransientErrors ==
  {"ECONNRESET", "ETIMEDOUT", "ECONNREFUSED", "socket hang up", "ESOCKET"}

\* C23: sendEmail makes at most 3 SMTP attempts; a further attempt follows
\* only a transient network-class error, after a wait that grows linearly;
\* an authentication or other permanent error ends the call after that one
\* attempt; every call ends with a message id or with a thrown error
C23_BoundedSmtpRetry ==
  /\ [](/\ smtp.attempts <= 3
        /\ \A i \in 1..Len(smtp.waits) : smtp.waits[i] = i * 2000
        /\ smtp.pc = "call"
             => /\ Len(smtp.waits) = smtp.attempts
                /\ Len(smtp.errors) = smtp.attempts
                /\ \A i \in 1..Len(smtp.errors) : smtp.errors[i] \in TransientErrors
        /\ smtp.pc = "done"
             => \/ smtp.outcome = "messageId"
                \/ smtp.outcome = "thrown" /\ smtp.error # "none")
  /\ [][( /\ smtp.pc = "call"
          /\ Len(smtp'.errors) = Len(smtp.errors) + 1
          /\ smtp'.errors[Len(smtp'.errors)] \notin TransientErrors )
        => /\ smtp'.pc = "done"
           /\ smtp'.outcome = "thrown"
           /\ smtp'.waits = smtp.waits]_vars
  /\ (smtp.pc = "call") ~> (smtp.pc = "done")

C23_Witness ==
  /\ smtp.pc = "done"
  /\ smtp.outcome = "thrown"
  /\ smtp.attempts = 3
  /\ smtp.errors = <<"ECONNRESET", "ESOCKET", "ETIMEDOUT">>
  /\ smtp.waits = <<2000, 4000>>
  /\ smtp.error = "Email server connection timed out"

\* C24: the price ranking of compare holds exactly the Responses with a
\* known total price, in ascending order of price with rankings 1..n; with a
\* known budget the percentOfBudget of each entry is price / budget * 100;
\* without Responses all three rankings are empty
C24_PriceRanking ==
  (ret.op = "compare" /\ ret.status = "ok")
  => LET ranking == ret.result.priceComparison
         priced == {i \in 1..Len(ret.found) : ret.found[i].totalPrice # Unknown}
     IN /\ Len(ranking) = Cardinality(priced)
        /\ {ranking[k].vendorName : k \in 1..Len(ranking)}
             = {ret.found[i].vendorName : i \in priced}
        /\ \A k \in 1..Len(ranking) :
             /\ ranking[k].ranking = k
             /\ \E i \in priced :
                  /\ ret.found[i].vendorName = ranking[k].vendorName
                  /\ ret.found[i].totalPrice = ranking[k].price
             /\ k > 1 => ranking[k - 1].price <= ranking[k].price
             /\ ret.rfp.budget # Unknown
                  => ranking[k].percentOfBudget * ret.rfp.budget = ranking[k].price * 100
        /\ ret.found = <<>>
             => /\ ret.result.priceComparison = <<>>
                /\ ret.result.deliveryComparison = <<>>
                /\ ret.result.scoreComparison = <<>>

C24_Witness ==
  /\ ret.op = "compare"
  /\ ret.status = "ok"
  /\ ret.rfp.budget = 10000
  /\ Len(ret.found) = 3
  /\ ret.found[1].totalPrice = 11000
  /\ ret.found[2].totalPrice = Unknown
  /\ ret.found[3].totalPrice = 9000
  /\ Len(ret.result.priceComparison) = 2
  /\ ret.result.priceComparison[1] =
       [vendorName |-> 3, price |-> 9000, percentOfBudget |-> 90, ranking |-> 1]
  /\ ret.result.priceComparison[2].vendorName = 1

\* C25: fullComparison succeeds whenever compare succeeds on the same RFP
\* and Responses, and returns the summaries and rankings of compare; when
\* the AI recommendation fails the recommendation is left out of the result,
\* whereas recommend on its own ends in the failure
C25_RecommendationBestEffort ==
  /\ (ret.op = "fullComparison")
     => /\ ret.status = (IF ret.rfp = NoRow THEN "NotFound" ELSE "ok")
        /\ ret.status = "ok"
             => /\ ret.result = compareProposals(ret.rfp, ret.found)
                /\ ~ret.aiOk => ret.aiRecommendation = "omitted"
                /\ (ret.aiOk /\ ret.found # <<>>)
                     => ret.aiRecommendation = "recommendation"
  /\ (ret.op = "recommend" /\ ret.rfp # NoRow /\ ret.found # <<>> /\ ~ret.aiOk)
     => ret.status = "AiError"

C25_Witness ==
  /\ ret.op = "fullComparison"
  /\ ~ret.aiOk
  /\ Len(ret.found) = 2
  /\ ret.status = "ok"
  /\ Len(ret.result.priceComparison) = 2
  /\ ret.aiRecommendation = "omitted"

\* C26: a call of addVendorToRfp for a pair that has an assignment writes
\* nothing, so there is no second assignment and the status and the times
\* of the existing one are kept; a call of removeVendorFromRfp leaves no
\* assignment of the pair, changes no other assignment, writes nothing when
\* the pair has none, and leaves every proposal as it was
C26_AddIdempotentRemoveKeepsProposals ==
  [][/\ (ret'.op = "addVendorToRfp"
           /\ RowsOf(rfpVendors, ret'.id, ret'.vendorId) # {})
        => /\ rfpVendors' = rfpVendors
           /\ proposals' = proposals
     /\ (ret'.op = "addVendorToRfp")
        => Cardinality(RowsOf(rfpVendors', ret'.id, ret'.vendorId)) = 1
     /\ (ret'.op = "removeVendorFromRfp")
        => /\ RowsOf(rfpVendors', ret'.id, ret'.vendorId) = {}
           /\ rfpVendors' = rfpVendors \ RowsOf(rfpVendors, ret'.id, ret'.vendorId)
           /\ proposals' = proposals]_vars

C26_Witness ==
  /\ ret.op = "addVendorToRfp"
  /\ \E rv \in RowsOf(rfpVendors, ret.id, ret.vendorId) :
       rv.status = "sent" /\ rv.sentAt # Null
  /\ ProposalsOf(ret.id, ret.vendorId) # {}

\* the last ingestion or re-parse has ended and no listener run is under way
Settled ==
  /\ InFlight = {}
  /\ ret.op \in {"processIncomingEmail", "reparse"}
  /\ ret.parse = "fail" \/ ret.eval # "none"

\* C27: after an ingestion or a re-parse whose AI parse call failed, the
\* evaluation was not called and the proposal is in status parse_failed
C27_ParseFailureSkipsEvaluation ==
  (Settled /\ ret.parse = "fail")
    => /\ ret.eval = "none"
       /\ Row(proposals, ret.proposal).status = "parse_failed"

C27_Witness ==
  /\ Settled
  /\ ret.op = "reparse"
  /\ ret.parse = "fail"
  /\ Row(proposals, ret.proposal).status = "parse_failed"
  /\ Row(proposals, ret.proposal).aiScore # Null

\* C28: after an ingestion or a re-parse whose AI parse call returned, the
\* items of the proposal are the items of that parse: those of content src
\* when the parse has items, none when it has none
C28_ItemsAreThoseOfTheParse ==
  (Settled /\ ret.parse # "fail")
    => Row(proposals, ret.proposal).items =
         (IF ret.parse = "full" THEN ret.src ELSE Null)

\* C29: after an ingestion or a re-parse whose parse returned, a failed
\* evaluation leaves the operation successful and the proposal in status
\* parsed, and an evaluation that returned leaves the proposal in status
\* evaluated with the analysis of that evaluation stored
C29_EvaluationBestEffort ==
  /\ (Settled /\ ret.eval = "fail")
       => /\ ret.status = "ok"
          /\ Row(proposals, ret.proposal).status = "parsed"
  /\ (Settled /\ ret.eval = "ok")
       => /\ Row(proposals, ret.proposal).status = "evaluated"
          /\ Row(proposals, ret.proposal).aiScore = ret.src

C29_Witness ==
  /\ Settled
  /\ ret.op = "processIncomingEmail"
  /\ ret.parse = "full"
  /\ ret.eval = "fail"
  /\ Row(proposals, ret.proposal).status = "parsed"
  /\ Row(proposals, ret.proposal).totalPrice = ret.src

\* C30: between operations, a proposal that carries an AI score carries the
\* score computed from the raw message and the parsed data stored on it
C30_ScoreMatchesStoredContent ==
  InFlight = {}
    => \A p \in proposals :
         p.aiScore # Null
           => /\ p.aiScore = p.rawEmailBody
              /\ p.aiScore = p.aiExtractedData

\* C31: when no listener run and no sendToVendors call is under way, an RFP
\* with an assignment in status responded is evaluating, deal_sold or closed
C31_RepliedRequestIsEvaluating ==
  (InFlight = {} /\ \A c \in CallSlots : calls[c].pc = "idle")
    => \A rv \in rfpVendors, rfp \in rfps :
         (rv.status = "responded" /\ rfp.id = rv.rfpId)
           => rfp.status \in {"evaluating", "deal_sold", "closed"}

\* C32: an RFP has at most one proposal in status selected
C32_OneSelectedPerRequest ==
  \A x, y \in proposals :
    (x.rfpId = y.rfpId /\ x.status = "selected" /\ y.status = "selected")
      => x.id = y.id

\* C33: a reparse call on a proposal with a raw body runs whatever the
\* status of the proposal and leaves it parse_failed when the parse fails,
\* evaluated when parse and evaluation return, parsed when only the parse
\* returns; on a proposal without a raw body it fails and the proposal is
\* unchanged; in both cases no RFP and no assignment changes
C33_ReparseFrame ==
  [][(ret'.op = "reparse")
       => /\ rfps' = rfps
          /\ rfpVendors' = rfpVendors
          /\ ret'.before = Row(proposals, ret'.proposal).status
          /\ IF Row(proposals, ret'.proposal).rawEmailBody = Null
               THEN ret'.status = "Error" /\ proposals' = proposals
               ELSE /\ ret'.status = "ok"
                    /\ Row(proposals', ret'.proposal).status =
                         (IF ret'.parse = "fail" THEN "parse_failed"
                          ELSE IF ret'.eval = "ok" THEN "evaluated" ELSE "parsed")]_vars

C33_Witness ==
  /\ ret.op = "reparse"
  /\ ret.status = "ok"
  /\ ret.before = "selected"
  /\ Row(proposals, ret.proposal).status = "parsed"
  /\ \E rfp \in rfps : rfp.status = "deal_sold"
  /\ \E rv \in rfpVendors : rv.status = "pending"

\* C34: a createManualProposal call for an RFP or a vendor id with no row
\* ends in not-found and writes nothing; otherwise it succeeds, creates no
\* row when the pair has a proposal, leaves the proposal of the pair
\* evaluated when the evaluation returned and parsed when it failed, and
\* changes no RFP and no assignment
C34_ManualUpsert ==
  [][(ret'.op = "createManualProposal")
       => IF ret'.id \notin Ids(rfps) \/ ret'.vendorId \notin Ids(vendors)
            THEN /\ ret'.status = "NotFound"
                 /\ UNCHANGED <<vendors, rfps, rfpVendors, proposals, nextId>>
            ELSE /\ ret'.status = "ok"
                 /\ rfps' = rfps
                 /\ rfpVendors' = rfpVendors
                 /\ ProposalsOf(ret'.id, ret'.vendorId) # {}
                      => Ids(proposals') = Ids(proposals)
                 /\ \E q \in proposals' :
                      q.rfpId = ret'.id /\ q.vendorId = ret'.vendorId
                 /\ \A q \in proposals' :
                      (q.rfpId = ret'.id /\ q.vendorId = ret'.vendorId)
                        => q.status = (IF ret'.evalOk THEN "evaluated" ELSE "parsed")]_vars

C34_Witness ==
  /\ ret.op = "createManualProposal"
  /\ ret.status = "ok"
  /\ ret.found
  /\ ~ret.evalOk
  /\ Cardinality(ProposalsOf(ret.id, ret.vendorId)) = 1
  /\ \A q \in ProposalsOf(ret.id, ret.vendorId) : q.status = "parsed"
  /\ \E rfp \in rfps : rfp.id = ret.id /\ rfp.status = "deal_sold"
  /\ \E rv \in rfpVendors :
       rv.rfpId = ret.id /\ rv.vendorId = ret.vendorId /\ rv.status = "pending"

\* the texts of the attachments of atts from the i-th on that can be read
RECURSIVE ReadableFrom(_, _)
ReadableFrom(atts, i) ==
  IF i > Len(atts) THEN <<>>
  ELSE IF atts[i] \in {"pdf", "text"} THEN <<i>> \o ReadableFrom(atts, i + 1)
  ELSE ReadableFrom(atts, i + 1)

\* C35: whatever attachments fail to extract, the message is handled on:
\* the stored metadata has one entry per attachment in the order of the
\* message, with parsed content exactly for the attachments that were read,
\* and the texts read are passed to the AI parse in that order
C35_AttachmentFailureIsolated ==
  (ret.op = "processAttachments")
    => /\ ret.status = "ok"
       /\ Len(ret.stored) = Len(ret.atts)
       /\ \A i \in 1..Len(ret.atts) :
            /\ ret.stored[i].filename = i
            /\ (ret.stored[i].parsedContent # Null) = (ret.atts[i] \in {"pdf", "text"})
            /\ ret.atts[i] \in {"pdf", "text"} => ret.stored[i].parsedContent = i
       /\ ret.parsed = ReadableFrom(ret.atts, 1)

C35_Witness ==
  /\ ret.op = "processAttachments"
  /\ ret.atts = <<"pdf", "badpdf", "text">>
  /\ ret.status = "ok"
  /\ ret.stored = <<[filename |-> 1, parsedContent |-> 1],
                    [filename |-> 2, parsedContent |-> Null],
                    [filename |-> 3, parsedContent |-> 3]>>
  /\ ret.parsed = <<1, 3>>

\* C36: once an ingestion that was not dropped, or a re-parse, has returned,
\* whatever the outcomes of its AI calls, the proposal it returns is in
\* status parsed, evaluated or parse_failed
C36_NoProposalLeftParsing ==
  Settled
    => /\ Row(proposals, ret.proposal).status \in {"parsed", "evaluated", "parse_failed"}
       /\ ret.op = "processIncomingEmail"
            => \E h \in Slots : /\ handlers[h].pc = "done"
                                /\ handlers[h].prop.id = ret.proposal

C36_Witness ==
  /\ Settled
  /\ ret.op = "processIncomingEmail"
  /\ ret.parse = "bare"
  /\ ret.eval = "ok"
  /\ Row(proposals, ret.proposal).status = "evaluated"
  /\ \E h \in Slots : handlers[h].pc = "done" /\ handlers[h].prop.id = ret.proposal

\* C37: the delivery ranking of a comparison has one entry for each
\* Response with known delivery days and no other, in ascending order of
\* days, numbered from 1, and an entry meets the requirement exactly when
\* the RFP has no required days or its days are at most the required days
C37_DeliveryRanking ==
  (ret.op = "compare" /\ ret.status = "ok")
    => LET ranking == ret.result.deliveryComparison
           known == {i \in 1..Len(ret.found) : ret.found[i].deliveryDays # Unknown}
       IN /\ Len(ranking) = Cardinality(known)
          /\ {ranking[i].vendorName : i \in 1..Len(ranking)} = known
          /\ \A i \in 1..Len(ranking) :
               /\ ranking[i].ranking = i
               /\ ranking[i].days = ret.found[ranking[i].vendorName].deliveryDays
               /\ i < Len(ranking) => ranking[i].days <= ranking[i + 1].days
               /\ ranking[i].meetsRequirement =
                    (ret.rfp.deliveryDays = Unknown
                       \/ ranking[i].days <= ret.rfp.deliveryDays)

\* C38: while polling is stopped (stopImapPolling was called and
\* startImapPolling has not been called since) no poll pass runs, and at
\* most one polling timer is set at any time, however many times
\* startImapPolling had been called before
C38_StopEndsPolling ==
  /\ ~poller.late
  /\ Cardinality(poller.active) <= 1
  /\ poller.stopped => poller.active = {}

====
